---- MODULE Spec2Model ----
(***************************************************************************)
(* EcoPredict: the AQI engine (classify_aqi in app/utils.py and in         *)
(* app/external_data.py), the synthetic series generator                   *)
(* (generate_realistic_air_quality_data) and the location profile          *)
(* resolver (get_location_profile).                                        *)
(*                                                                         *)
(* Numbers.  A Python float is modelled as an exact rational               *)
(* [tag |-> "float", num, den] in lowest terms, NaN as [tag |-> "nan"],    *)
(* a non-numeric cell (a str) as [tag |-> "str"].  Arithmetic is exact;    *)
(* IEEE rounding is not modelled.                                          *)
(***************************************************************************)
EXTENDS Integers, Sequences, FiniteSets, TLC

VARIABLES
    variant,        \* which classify_aqi: "utils" or "external_data"
    pollutant,      \* calculate_sub_index: argument pollutant
    concentration,  \* calculate_sub_index: argument concentration
    sub_index,      \* calculate_sub_index: returned value (or the exception)
    aqi,            \* get_category: argument
    category,       \* get_category: returned value
    df_in,          \* classify_aqi: the table as the caller passed it
    df,             \* classify_aqi: the table object, mutated in place
    status,         \* classify_aqi: "called", "returned" or "raised"
    location,       \* generate_realistic_air_quality_data: argument
    date_from,      \* generate_realistic_air_quality_data: argument
    date_to,        \* generate_realistic_air_quality_data: argument
    limit,          \* generate_realistic_air_quality_data: argument
    rng,            \* the random source: which stream of draws the process gets
    demo_data,      \* generate_realistic_air_quality_data: returned list
    locals,         \* generate_realistic_air_quality_data: the local variables of
                    \* one pass of the loop body (hour, temperature, ..., value)
    now,            \* the clock: seconds since the openaq request came in, or
                    \* minutes of datetime.utcnow() for the accounts
    timer,          \* time_limit: the threading.Timer ("none", "started",
                    \* "fired", "cancelled")
    exceptions,     \* the exceptions raised so far, each with its thread
    response,       \* the response of the handler to the request
    files,          \* the files written to UPLOAD_FOLDER
    datasets,       \* the committed rows of Dataset
    users,          \* the committed rows of User, by email
    history         \* the login requests answered so far, oldest first

vars == <<variant, pollutant, concentration, sub_index, aqi, category, df_in, df,
          status, location, date_from, date_to, limit, rng, demo_data, locals,
          now, timer, exceptions, response, files, datasets, users, history>>

\* The variables of the web handlers (openaq, login, reset_password_request).
web_vars == <<now, timer, exceptions, response, files, datasets, users, history>>

\* A variable of a function that is not being called.
None == [tag |-> "none", num |-> 0, den |-> 1]

----------------------------------------------------------------------------
(* Exact rational arithmetic standing for Python float arithmetic.         *)

Abs(n) == IF n < 0 THEN -n ELSE n

RECURSIVE GCD(_, _)
GCD(a, b) == IF b = 0 THEN a ELSE GCD(b, a % b)

\* The float n/d (d > 0), in lowest terms.
Float(n, d) ==
    LET g == GCD(Abs(n), d)
    IN  [tag |-> "float", num |-> n \div g, den |-> d \div g]

Num(n) == Float(n, 1)
Tenths(n) == Float(n, 10)
Hundredths(n) == Float(n, 100)

NaN == [tag |-> "nan", num |-> 0, den |-> 1]
\* A cell holding a str: not missing, and not comparable with a number.
Str == [tag |-> "str", num |-> 0, den |-> 1]

\* The exception a comparison of a number with a str raises.
TypeError == [tag |-> "TypeError", num |-> 0, den |-> 1]

IsFloat(x) == x.tag = "float"

\* pd.isna / np.isnan on a scalar.
isna(x) == x.tag = "nan"

\* a/b compared with c/d for a, c >= 0 and b, d > 0: -1, 0 or 1.  Compares the
\* integer parts, then the reciprocals of the remainders, so that no product
\* leaves the integer range.
RECURSIVE CmpPos(_, _, _, _)
CmpPos(a, b, c, d) ==
    LET qa == a \div b
        qc == c \div d
        ra == a % b
        rc == c % d
    IN  IF qa < qc THEN -1
        ELSE IF qa > qc THEN 1
        ELSE IF ra = 0 /\ rc = 0 THEN 0
        ELSE IF ra = 0 THEN -1
        ELSE IF rc = 0 THEN 1
        ELSE 0 - CmpPos(b, ra, d, rc)

Cmp(x, y) ==
    IF x.num < 0 /\ y.num >= 0 THEN -1
    ELSE IF x.num >= 0 /\ y.num < 0 THEN 1
    ELSE IF x.num < 0 THEN CmpPos(-y.num, y.den, -x.num, x.den)
    ELSE CmpPos(x.num, x.den, y.num, y.den)

Le(x, y) == Cmp(x, y) <= 0
Lt(x, y) == Cmp(x, y) < 0

LCM(a, b) == (a \div GCD(a, b)) * b

Add(x, y) ==
    LET l == LCM(x.den, y.den)
    IN  Float(x.num * (l \div x.den) + y.num * (l \div y.den), l)

Neg(x) == [x EXCEPT !.num = -x.num]
Sub(x, y) == Add(x, Neg(y))

Mul(x, y) ==
    LET g1 == GCD(Abs(x.num), y.den)
        g2 == GCD(Abs(y.num), x.den)
    IN  Float((x.num \div g1) * (y.num \div g2), (x.den \div g2) * (y.den \div g1))

\* x / y for y # 0.
Div(x, y) ==
    IF y.num > 0 THEN Mul(x, Float(y.den, y.num))
    ELSE Mul(x, Float(-y.den, -y.num))

----------------------------------------------------------------------------
(* classify_aqi: the breakpoint tables, the categories and the two nested  *)
(* functions, once per variant.                                            *)

Variants == {"utils", "external_data"}

\* The keys of breakpoints, in the dict's order.
parameters == <<"pm25", "pm10", "o3", "co", "so2", "no2">>
Pollutants == {parameters[i] : i \in DOMAIN parameters}

\* A table whose second segment starts where the first one ends.
breakpoints_overlapping ==
    [p \in Pollutants |->
        << <<Num(0), Num(54), 0, 50>>, <<Num(54), Num(154), 51, 100>> >>]

breakpoints_external ==
    [p \in Pollutants |->
        CASE p = "pm25" ->
               << <<Num(0), Tenths(120), 0, 50>>, <<Tenths(121), Tenths(354), 51, 100>>,
                  <<Tenths(355), Tenths(554), 101, 150>>,
                  <<Tenths(555), Tenths(1504), 151, 200>>,
                  <<Tenths(1505), Tenths(2504), 201, 300>>,
                  <<Tenths(2505), Tenths(5004), 301, 500>> >>
          [] p = "pm10" ->
               << <<Num(0), Num(54), 0, 50>>, <<Num(55), Num(154), 51, 100>>,
                  <<Num(155), Num(254), 101, 150>>,
                  <<Num(255), Num(354), 151, 200>>, <<Num(355), Num(424), 201, 300>>,
                  <<Num(425), Num(604), 301, 500>> >>
          [] p = "o3" ->
               << <<Num(0), Num(54), 0, 50>>, <<Num(55), Num(70), 51, 100>>,
                  <<Num(71), Num(85), 101, 150>>,
                  <<Num(86), Num(105), 151, 200>>, <<Num(106), Num(200), 201, 300>> >>
          [] p = "co" ->
               << <<Num(0), Num(4400), 0, 50>>, <<Num(4401), Num(9400), 51, 100>>,
                  <<Num(9401), Num(12400), 101, 150>>,
                  <<Num(12401), Num(15400), 151, 200>>,
                  <<Num(15401), Num(30400), 201, 300>> >>
          [] p = "so2" ->
               << <<Num(0), Num(35), 0, 50>>, <<Num(36), Num(75), 51, 100>>,
                  <<Num(76), Num(185), 101, 150>>,
                  <<Num(186), Num(304), 151, 200>> >>
          [] p = "no2" ->
               << <<Num(0), Num(53), 0, 50>>, <<Num(54), Num(100), 51, 100>>,
                  <<Num(101), Num(360), 101, 150>>,
                  <<Num(361), Num(649), 151, 200>> >>]

breakpoints_utils ==
    [p \in Pollutants |->
        CASE p = "pm25" ->
               << <<Num(0), Tenths(120), 0, 50>>, <<Tenths(121), Tenths(354), 51, 100>>,
                  <<Tenths(355), Tenths(554), 101, 150>>,
                  <<Tenths(555), Tenths(1504), 151, 200>>,
                  <<Tenths(1505), Tenths(2504), 201, 300>>,
                  <<Tenths(2505), Tenths(5004), 301, 500>> >>
          [] p = "pm10" ->
               << <<Num(0), Num(54), 0, 50>>, <<Num(55), Num(154), 51, 100>>,
                  <<Num(155), Num(254), 101, 150>>,
                  <<Num(255), Num(354), 151, 200>>, <<Num(355), Num(424), 201, 300>>,
                  <<Num(425), Num(604), 301, 500>> >>
          [] p = "o3" ->
               << <<Num(0), Num(54), 0, 50>>, <<Num(55), Num(70), 51, 100>>,
                  <<Num(71), Num(85), 101, 150>>,
                  <<Num(86), Num(105), 151, 200>>, <<Num(106), Num(200), 201, 300>> >>
          [] p = "co" ->
               << <<Num(0), Num(4400), 0, 50>>, <<Num(4401), Num(9400), 51, 100>>,
                  <<Num(9401), Num(12400), 101, 150>>,
                  <<Num(12401), Num(15400), 151, 200>>,
                  <<Num(15401), Num(30400), 201, 300>> >>
          [] p = "so2" ->
               << <<Num(0), Num(35), 0, 50>>, <<Num(36), Num(75), 51, 100>>,
                  <<Num(76), Num(185), 101, 150>>,
                  <<Num(186), Num(304), 151, 200>> >>
          [] p = "no2" ->
               << <<Num(0), Num(53), 0, 50>>, <<Num(54), Num(100), 51, 100>>,
                  <<Num(101), Num(360), 101, 150>>,
                  <<Num(361), Num(649), 151, 200>> >>]

breakpoints(v) == IF v = "utils" THEN breakpoints_utils ELSE breakpoints_external

\* The categories dict, in its order: (i_low, i_high) -> category.
categories_external ==
    << <<0, 50, "Boa">>, <<51, 100, "Moderada">>,
       <<101, 150, "Ruim para Grupos Sensiveis">>, <<151, 200, "Ruim">>,
       <<201, 300, "Muito Ruim">>, <<301, 501, "Perigosa">> >>

categories_utils ==
    << <<0, 50, "Boa">>, <<51, 100, "Moderada">>,
       <<101, 150, "Ruim para Grupos Sensiveis">>, <<151, 200, "Ruim">>,
       <<201, 300, "Muito Ruim">>, <<301, 501, "Perigosa">> >>

categories(v) == IF v = "utils" THEN categories_utils ELSE categories_external

\* interpolate with the slope applied to the distance from bp_high instead of
\* bp_low.
interpolate_from_high(seg, c) ==
    Add(Mul(Div(Num(seg[4] - seg[3]), Sub(seg[2], seg[1])), Sub(c, seg[2])),
        Num(seg[3]))

\* The body of the loop of calculate_sub_index on the segment that contains the
\* concentration.
interpolate(seg, c) ==
    Add(Mul(Div(Num(seg[4] - seg[3]), Sub(seg[2], seg[1])), Sub(c, seg[1])),
        Num(seg[3]))

\* bp_low <= concentration <= bp_high
contains(seg, c) == Le(seg[1], c) /\ Le(c, seg[2])

\* sub_index_from giving the i_high of the last segment, not np.nan, to a
\* concentration that no segment contains.
sub_index_from_clamped(segs, i, c) ==
    IF \E j \in i..Len(segs) : contains(segs[j], c)
    THEN interpolate(segs[CHOOSE j \in i..Len(segs) :
                            contains(segs[j], c)
                            /\ \A k \in i..(j - 1) : ~contains(segs[k], c)], c)
    ELSE Num(segs[Len(segs)][4])

\* The for loop over breakpoints[pollutant] from segment i on: the first segment
\* that contains the concentration decides; np.nan when none does.
RECURSIVE sub_index_from(_, _, _)
sub_index_from(segs, i, c) ==
    IF i > Len(segs) THEN NaN
    ELSE IF contains(segs[i], c) THEN interpolate(segs[i], c)
    ELSE sub_index_from(segs, i + 1, c)

\* calculate_sub_index falling back to the pm25 table for a pollutant that has
\* no table.
calculate_sub_index_default_table(v, c, p) ==
    IF isna(c) THEN NaN
    ELSE IF c.tag = "str" THEN TypeError
    ELSE sub_index_from(breakpoints(v)[IF p \in Pollutants THEN p ELSE "pm25"], 1, c)

\* calculate_sub_index(concentration, pollutant).  A str concentration passes
\* pd.isna and raises TypeError at the first comparison bp_low <= concentration.
calculate_sub_index(v, c, p) ==
    IF isna(c) \/ p \notin DOMAIN breakpoints(v) THEN NaN
    ELSE IF c.tag = "str" THEN TypeError
    ELSE sub_index_from(breakpoints(v)[p], 1, c)

\* category_from with bands open at their upper end: i_low <= aqi < i_high.
RECURSIVE category_from_half_open(_, _, _)
category_from_half_open(cats, i, a) ==
    IF i > Len(cats) THEN "Perigosa"
    ELSE IF Le(Num(cats[i][1]), a) /\ Lt(a, Num(cats[i][2])) THEN cats[i][3]
    ELSE category_from_half_open(cats, i + 1, a)

\* The for loop of get_category over categories.items() from band i on.
RECURSIVE category_from(_, _, _)
category_from(cats, i, a) ==
    IF i > Len(cats) THEN "Perigosa"
    ELSE IF Le(Num(cats[i][1]), a) /\ Le(a, Num(cats[i][2])) THEN cats[i][3]
    ELSE category_from(cats, i + 1, a)

\* get_category(aqi), for a float or NaN aqi.
get_category(v, a) ==
    IF isna(a) THEN "Indisponivel" ELSE category_from(categories(v), 1, a)

----------------------------------------------------------------------------
(* The random source.  A process's random source is one of Streams: the k-th *)
(* draw of random.random() / np.random.uniform is the k-th entry, cyclically, *)
(* in units of 1/200 (random() lies in [0, 1)).                             *)

Streams ==
    << <<0>>, <<141>>, <<199>>, <<100, 0, 199, 50, 150, 10, 190>>,
       <<150, 199, 20, 180, 147, 60, 5>> >>

Draw(r, k) == Streams[r][(k % Len(Streams[r])) + 1]

\* random.uniform(a, b) = a + (b - a) * random(), on the draw u.
uniform(a, b, u) == Add(a, Mul(Sub(b, a), Float(u, 200)))

----------------------------------------------------------------------------
(* Tables (pandas DataFrame): n rows and the columns col, each a sequence   *)
(* of n cells.                                                             *)

Columns(t) == DOMAIN t.col

\* df[c] = cells
SetCol(t, c, cells) ==
    [t EXCEPT !.col = [k \in (DOMAIN t.col) \cup {c} |->
                          IF k = c THEN cells ELSE t.col[k]]]

\* df[c] = x for a scalar x
SetColScalar(t, c, x) == SetCol(t, c, [r \in 1..t.n |-> x])

\* f'AQI_{poll}'
AQICol(p) ==
    CASE p = "pm25" -> "AQI_pm25"
      [] p = "pm10" -> "AQI_pm10"
      [] p = "o3" -> "AQI_o3"
      [] p = "co" -> "AQI_co"
      [] p = "so2" -> "AQI_so2"
      [] p = "no2" -> "AQI_no2"

----------------------------------------------------------------------------
(* classify_aqi, step by step.                                              *)

\* df[poll].apply(lambda x: calculate_sub_index(x, poll))
apply_sub_index(v, cells, p) ==
    [r \in 1..Len(cells) |-> calculate_sub_index(v, cells[r], p)]

\* The loop "for poll in breakpoints.keys()" from the i-th key on.  A TypeError
\* in apply leaves the loop with the columns assigned so far.
RECURSIVE sub_index_columns(_, _, _)
sub_index_columns(v, t, i) ==
    IF i > Len(parameters) THEN [df |-> t, raised |-> FALSE]
    ELSE LET p == parameters[i]
         IN  IF p \notin Columns(t) THEN sub_index_columns(v, t, i + 1)
             ELSE LET out == apply_sub_index(v, t.col[p], p)
                  IN  IF \E r \in 1..t.n : out[r] = TypeError
                      THEN [df |-> t, raised |-> TRUE]
                      ELSE sub_index_columns(v, SetCol(t, AQICol(p), out), i + 1)

\* aqi_cols = [f'AQI_{poll}' for poll in breakpoints.keys() if f'AQI_{poll}' in df.columns]
aqi_cols(t) == {AQICol(p) : p \in Pollutants} \cap Columns(t)

\* max(axis=1) taking the first NaN as the row's maximum.
row_max_nan_wins(t, cols, r) ==
    LET xs == {t.col[c][r] : c \in cols}
    IN  IF \E x \in xs : isna(x) THEN NaN
        ELSE CHOOSE x \in xs : \A y \in xs : Le(y, x)

\* df[aqi_cols].max(axis=1) in row r: the maximum of the cells that are not NaN
\* (skipna), NaN when all are.
row_max(t, cols, r) ==
    LET xs == {x \in {t.col[c][r] : c \in cols} : ~isna(x)}
    IN  IF xs = {} THEN NaN
        ELSE CHOOSE x \in xs : \A y \in xs : Le(y, x)

\* Overall_AQI and AQI_Category, from the AQI_ columns of the table.
overall_and_category(v, t) ==
    IF aqi_cols(t) # {}
    THEN LET t1 == SetCol(t, "Overall_AQI", [r \in 1..t.n |-> row_max(t, aqi_cols(t), r)])
         IN  SetCol(t1, "AQI_Category",
                    [r \in 1..t.n |-> get_category(v, t1.col["Overall_AQI"][r])])
    ELSE SetColScalar(SetColScalar(t, "Overall_AQI", NaN), "AQI_Category", "Indisponivel")

weather_features == <<"temperature", "humidity", "pressure", "wind_speed">>

\* default_range with the range of pressure for every feature.
default_range_of_pressure(f) == <<1010, 1020>>

\* The default range of a weather feature missing from the table.
default_range(f) ==
    CASE f = "temperature" -> <<15, 30>>
      [] f = "humidity" -> <<50, 85>>
      [] f = "pressure" -> <<1010, 1020>>
      [] f = "wind_speed" -> <<2, 8>>

\* backfill without the test "feature not in df.columns": every weather feature
\* is drawn anew.
RECURSIVE backfill_always(_, _, _, _)
backfill_always(t, i, r, k) ==
    IF i > Len(weather_features) THEN t
    ELSE LET f == weather_features[i]
         IN  backfill_always(SetCol(t, f,
                                    [j \in 1..t.n |->
                                        uniform(Num(default_range(f)[1]),
                                                Num(default_range(f)[2]),
                                                Draw(r, k + j - 1))]),
                             i + 1, r, k + t.n)

\* The loop "for feature in weather_features" from the i-th feature on; k draws
\* have been taken from the random source r so far.
RECURSIVE backfill(_, _, _, _)
backfill(t, i, r, k) ==
    IF i > Len(weather_features) THEN t
    ELSE LET f == weather_features[i]
         IN  IF f \in Columns(t) THEN backfill(t, i + 1, r, k)
             ELSE backfill(SetCol(t, f,
                                  [j \in 1..t.n |->
                                      uniform(Num(default_range(f)[1]),
                                              Num(default_range(f)[2]),
                                              Draw(r, k + j - 1))]),
                           i + 1, r, k + t.n)

\* The except branch of classify_aqi (app/external_data.py).
except_handler(t) ==
    IF "Overall_AQI" \notin Columns(t)
    THEN SetColScalar(SetColScalar(t, "Overall_AQI", NaN), "AQI_Category", "Erro no calculo")
    ELSE t

\* classify_aqi(df) of app/external_data.py on the random source r: the table
\* returned.
classify_aqi_external(t, r) ==
    LET s == sub_index_columns("external_data", t, 1)
    IN  IF s.raised THEN [df |-> except_handler(s.df), raised |-> FALSE]
        ELSE [df |-> backfill(overall_and_category("external_data", s.df), 1, r, 0),
              raised |-> FALSE]

\* classify_aqi(df) of app/utils.py: no try, so a TypeError leaves the function.
classify_aqi_utils(t) ==
    LET s == sub_index_columns("utils", t, 1)
    IN  IF s.raised THEN s
        ELSE [df |-> overall_and_category("utils", s.df), raised |-> FALSE]

classify_aqi(v, t, r) ==
    IF v = "utils" THEN classify_aqi_utils(t) ELSE classify_aqi_external(t, r)

----------------------------------------------------------------------------
(* Strings.  A str is the sequence of its characters; a~, a', e' (and A~,   *)
(* A', E') stand for the accented letters of the location keys.             *)

UpperChars ==
    <<"A", "B", "C", "D", "E", "F", "G", "H", "I", "J", "K", "L", "M", "N", "O", "P",
      "Q", "R", "S", "T", "U", "V", "W", "X", "Y", "Z", "A~", "A'", "E'">>
LowerChars ==
    <<"a", "b", "c", "d", "e", "f", "g", "h", "i", "j", "k", "l", "m", "n", "o", "p",
      "q", "r", "s", "t", "u", "v", "w", "x", "y", "z", "a~", "a'", "e'">>

\* lower that leaves the str as it is.
lower_unchanged(st) == st

\* str.lower()
lower(st) ==
    [i \in 1..Len(st) |->
        IF \E j \in DOMAIN UpperChars : UpperChars[j] = st[i]
        THEN LowerChars[CHOOSE j \in DOMAIN UpperChars : UpperChars[j] = st[i]]
        ELSE st[i]]

\* sub in st
in_str(sub, st) ==
    \E i \in 0..(Len(st) - Len(sub)) : SubSeq(st, i + 1, i + Len(sub)) = sub

----------------------------------------------------------------------------
(* get_location_profile                                                     *)

\* A table with the 'default' profile alone, and pm25 its only pollutant.
location_profiles_pm25_only ==
    << [key |-> <<"d", "e", "f", "a", "u", "l", "t">>,
        pollutants |-> [pm25 |-> <<10, 35>>],
        weather |->
          [temperature |-> <<15, 30>>, humidity |-> <<50, 85>>,
           pressure |-> <<1010, 1020>>, wind_speed |-> <<2, 8>>]] >>

\* The dict location_profiles, in its order.
location_profiles ==
    <<
       [key |-> <<"s", "a~", "o", " ", "p", "a", "u", "l", "o">>,
        pollutants |->
          [pm25 |-> <<15, 45>>, pm10 |-> <<25, 65>>, o3 |-> <<30, 90>>, co |-> <<300, 900>>,
           so2 |-> <<5, 25>>, no2 |-> <<20, 60>>],
        weather |->
          [temperature |-> <<18, 32>>, humidity |-> <<60, 90>>,
           pressure |-> <<1010, 1020>>, wind_speed |-> <<2, 8>>]],
       [key |-> <<"c", "u", "i", "a", "b", "a'">>,
        pollutants |->
          [pm25 |-> <<20, 60>>, pm10 |-> <<30, 80>>, o3 |-> <<40, 110>>, co |-> <<400, 1000>>,
           so2 |-> <<8, 30>>, no2 |-> <<25, 70>>],
        weather |->
          [temperature |-> <<22, 38>>, humidity |-> <<40, 80>>,
           pressure |-> <<1008, 1015>>, wind_speed |-> <<3, 12>>]],
       [key |-> <<"b", "e", "l", "e'", "m">>,
        pollutants |->
          [pm25 |-> <<10, 35>>, pm10 |-> <<20, 55>>, o3 |-> <<25, 80>>, co |-> <<200, 700>>,
           so2 |-> <<3, 18>>, no2 |-> <<15, 45>>],
        weather |->
          [temperature |-> <<24, 32>>, humidity |-> <<75, 95>>,
           pressure |-> <<1010, 1015>>, wind_speed |-> <<2, 6>>]],
       [key |-> <<"t", "a", "n", "g", "a", "r", "a">>,
        pollutants |->
          [pm25 |-> <<15, 50>>, pm10 |-> <<25, 70>>, o3 |-> <<35, 100>>, co |-> <<350, 950>>,
           so2 |-> <<6, 28>>, no2 |-> <<20, 65>>],
        weather |->
          [temperature |-> <<20, 35>>, humidity |-> <<45, 85>>,
           pressure |-> <<1009, 1018>>, wind_speed |-> <<3, 10>>]],
       [key |-> <<"l", "o", "n", "d", "o", "n">>,
        pollutants |->
          [pm25 |-> <<8, 35>>, pm10 |-> <<15, 50>>, o3 |-> <<25, 80>>, co |-> <<200, 700>>,
           so2 |-> <<2, 15>>, no2 |-> <<15, 45>>],
        weather |->
          [temperature |-> <<5, 25>>, humidity |-> <<70, 95>>,
           pressure |-> <<1005, 1025>>, wind_speed |-> <<5, 15>>]],
       [key |-> <<"n", "e", "w", " ", "y", "o", "r", "k">>,
        pollutants |->
          [pm25 |-> <<10, 40>>, pm10 |-> <<20, 55>>, o3 |-> <<35, 95>>, co |-> <<250, 800>>,
           so2 |-> <<3, 20>>, no2 |-> <<25, 65>>],
        weather |->
          [temperature |-> <<0, 30>>, humidity |-> <<50, 85>>,
           pressure |-> <<1010, 1030>>, wind_speed |-> <<3, 10>>]],
       [key |-> <<"d", "e", "f", "a", "u", "l", "t">>,
        pollutants |->
          [pm25 |-> <<10, 35>>, pm10 |-> <<15, 50>>, o3 |-> <<25, 85>>, co |-> <<200, 700>>,
           so2 |-> <<3, 18>>, no2 |-> <<15, 50>>],
        weather |->
          [temperature |-> <<15, 30>>, humidity |-> <<50, 85>>,
           pressure |-> <<1010, 1020>>, wind_speed |-> <<2, 8>>]]
    >>

\* profile_from falling back to the first profile, not to 'default'.
RECURSIVE profile_from_first(_, _)
profile_from_first(location_lower, i) ==
    IF i > Len(location_profiles) THEN location_profiles[1]
    ELSE IF in_str(location_profiles[i].key, location_lower) THEN location_profiles[i]
    ELSE profile_from_first(location_lower, i + 1)

\* The loop "for loc in location_profiles" from the i-th key on, then the
\* default.
RECURSIVE profile_from(_, _)
profile_from(location_lower, i) ==
    IF i > Len(location_profiles) THEN location_profiles[Len(location_profiles)]
    ELSE IF in_str(location_profiles[i].key, location_lower) THEN location_profiles[i]
    ELSE profile_from(location_lower, i + 1)

get_location_profile(loc) == profile_from(lower(loc), 1)

----------------------------------------------------------------------------
(* Dates: datetime.strptime(s, '%Y-%m-%d') and date arithmetic.             *)

DigitChars == <<"0", "1", "2", "3", "4", "5", "6", "7", "8", "9">>
IsDigit(ch) == \E i \in DOMAIN DigitChars : DigitChars[i] = ch
DigitVal(ch) == (CHOOSE i \in DOMAIN DigitChars : DigitChars[i] = ch) - 1

\* The number a sequence of digits spells.
RECURSIVE NumberOf(_)
NumberOf(ds) ==
    IF ds = << >> THEN 0
    ELSE 10 * NumberOf(SubSeq(ds, 1, Len(ds) - 1)) + DigitVal(ds[Len(ds)])

AllDigits(ds) == \A i \in DOMAIN ds : IsDigit(ds[i])

\* datetime.MINYEAR, datetime.MAXYEAR
MINYEAR == 1
MAXYEAR == 9999

IsLeap(y) == y % 4 = 0 /\ (y % 100 # 0 \/ y % 400 = 0)

DaysInMonth(y, m) ==
    IF m = 2 THEN (IF IsLeap(y) THEN 29 ELSE 28)
    ELSE IF m \in {4, 6, 9, 11} THEN 30 ELSE 31

NoDate == [ok |-> FALSE, year |-> 0, month |-> 0, day |-> 0]

\* %m and %d: one or two digits (%d also a space and a digit), in range.
Field(ds, max) ==
    IF Len(ds) \in {1, 2} /\ AllDigits(ds) /\ NumberOf(ds) \in 1..max THEN NumberOf(ds)
    ELSE IF max = 31 /\ Len(ds) = 2 /\ ds[1] = " " /\ IsDigit(ds[2]) /\ ds[2] # "0"
    THEN DigitVal(ds[2])
    ELSE 0

\* datetime.strptime(st, '%Y-%m-%d'): four digits, '-', the month, '-', the day,
\* and nothing else; ok is FALSE where strptime raises ValueError.
strptime(st) ==
    IF Len(st) < 8 \/ ~AllDigits(SubSeq(st, 1, 4)) \/ st[5] # "-" THEN NoDate
    ELSE LET rest == SubSeq(st, 6, Len(st))
             dashes == {i \in DOMAIN rest : rest[i] = "-"}
         IN  IF Cardinality(dashes) # 1 THEN NoDate
             ELSE LET j == CHOOSE i \in dashes : TRUE
                      y == NumberOf(SubSeq(st, 1, 4))
                      m == Field(SubSeq(rest, 1, j - 1), 12)
                      d == Field(SubSeq(rest, j + 1, Len(rest)), 31)
                  IN  IF y < MINYEAR \/ m = 0 \/ d = 0 THEN NoDate
                      ELSE IF d > DaysInMonth(y, m) THEN NoDate
                      ELSE [ok |-> TRUE, year |-> y, month |-> m, day |-> d]

\* a <= b on dates
DateLe(a, b) ==
    \/ a.year < b.year
    \/ a.year = b.year /\ a.month < b.month
    \/ a.year = b.year /\ a.month = b.month /\ a.day <= b.day

\* next_day that leaves the date where it is.
next_day_same(a) == a

\* date + timedelta(days=1); ok is FALSE where it raises OverflowError.
next_day(a) ==
    IF a.day < DaysInMonth(a.year, a.month) THEN [a EXCEPT !.day = a.day + 1]
    ELSE IF a.month < 12 THEN [a EXCEPT !.month = a.month + 1, !.day = 1]
    ELSE IF a.year < MAXYEAR THEN [a EXCEPT !.year = a.year + 1, !.month = 1, !.day = 1]
    ELSE NoDate

----------------------------------------------------------------------------
(* generate_realistic_air_quality_data                                      *)

\* round(x, ndigits) for scale = 10^ndigits: to the nearest, ties to even.
round(x, scale) ==
    LET q == x.num \div x.den
        t == (x.num - q * x.den) * scale
        h == t \div x.den
        rem == t % x.den
        up == 2 * rem > x.den \/ (2 * rem = x.den /\ (q * scale + h) % 2 = 1)
    IN  Float(q * scale + h + (IF up THEN 1 ELSE 0), scale)

\* hour_factor with the overnight hours written as two ranges.
hour_factor_overnight(hour) ==
    IF (7 <= hour /\ hour <= 9) \/ (17 <= hour /\ hour <= 19) THEN Tenths(18)
    ELSE IF 10 <= hour /\ hour <= 16 THEN Tenths(13)
    ELSE IF 20 <= hour \/ hour <= 6 THEN Tenths(6)
    ELSE Num(1)

\* hour_factor of the hour: the if/elif chain; "20 <= hour <= 6" is a chained
\* comparison, 20 <= hour and hour <= 6.
hour_factor(hour) ==
    IF (7 <= hour /\ hour <= 9) \/ (17 <= hour /\ hour <= 19) THEN Tenths(18)
    ELSE IF 10 <= hour /\ hour <= 16 THEN Tenths(13)
    ELSE IF 20 <= hour /\ hour <= 6 THEN Tenths(6)
    ELSE Num(1)

\* weather_factor with 1.2 assigned, not multiplied in, when humidity > 80.
weather_factor_assigned(wind_speed, humidity) ==
    IF Lt(Num(80), humidity) THEN Tenths(12)
    ELSE IF Lt(Num(8), wind_speed) THEN Tenths(7) ELSE Num(1)

\* weather_factor of the hour's wind speed and humidity.
weather_factor(wind_speed, humidity) ==
    LET w1 == IF Lt(Num(8), wind_speed) THEN Mul(Num(1), Tenths(7)) ELSE Num(1)
    IN  IF Lt(Num(80), humidity) THEN Mul(w1, Tenths(12)) ELSE w1

\* seasonal_factor of current_date.month
seasonal_factor(month) == IF month \in {6, 7, 8, 9} THEN Tenths(12) ELSE Num(1)

\* weather_sample without the diurnal cases: every hour draws from the full
\* ranges.
weather_sample_flat(wp, hour, r, k) ==
    [temperature |->
        uniform(Num(wp.temperature[1]), Num(wp.temperature[2]), Draw(r, k)),
     humidity |-> uniform(Num(wp.humidity[1]), Num(wp.humidity[2]), Draw(r, k + 1)),
     pressure |-> uniform(Num(wp.pressure[1]), Num(wp.pressure[2]), Draw(r, k + 2)),
     wind_speed |->
        uniform(Num(wp.wind_speed[1]), Num(wp.wind_speed[2]), Draw(r, k + 3))]

\* The weather of the hour, on the draws k .. k+3 of the random source r.
weather_sample(wp, hour, r, k) ==
    LET tmin == Num(wp.temperature[1])
        tmax == Num(wp.temperature[2])
        hmin == Num(wp.humidity[1])
        hmax == Num(wp.humidity[2])
    IN  [temperature |->
            IF 13 <= hour /\ hour <= 15 THEN uniform(Sub(tmax, Num(5)), tmax, Draw(r, k))
            ELSE IF 3 <= hour /\ hour <= 5 THEN uniform(tmin, Add(tmin, Num(5)), Draw(r, k))
            ELSE uniform(tmin, tmax, Draw(r, k)),
         humidity |->
            IF 13 <= hour /\ hour <= 15 THEN uniform(hmin, Add(hmin, Num(20)), Draw(r, k + 1))
            ELSE IF 3 <= hour /\ hour <= 5
            THEN uniform(Sub(hmax, Num(20)), hmax, Draw(r, k + 1))
            ELSE uniform(hmin, hmax, Draw(r, k + 1)),
         pressure |-> uniform(Num(wp.pressure[1]), Num(wp.pressure[2]), Draw(r, k + 2)),
         wind_speed |->
            uniform(Num(wp.wind_speed[1]), Num(wp.wind_speed[2]), Draw(r, k + 3))]

\* reading_value with the product subtracted from base_min.
reading_value_minus(base, hf, wf, sf, u) ==
    LET random_factor == uniform(Tenths(7), Tenths(13), u)
    IN  round(Sub(Num(base[1]),
                  Mul(Mul(Mul(Mul(Num(base[2] - base[1]), random_factor), hf), wf), sf)),
              100)

\* The value of one reading: base_min + (base_max - base_min) * random_factor *
\* hour_factor * weather_factor * seasonal_factor, rounded to two decimals.
reading_value(base, hf, wf, sf, u) ==
    LET random_factor == uniform(Tenths(7), Tenths(13), u)
    IN  round(Add(Num(base[1]),
                  Mul(Mul(Mul(Mul(Num(base[2] - base[1]), random_factor), hf), wf), sf)),
              100)

\* location.split(',')[0] if ',' in location else location
city_of(loc) ==
    IF \E i \in DOMAIN loc : loc[i] = ","
    THEN SubSeq(loc, 1, (CHOOSE i \in DOMAIN loc :
                            loc[i] = "," /\ \A j \in 1..(i - 1) : loc[j] # ",") - 1)
    ELSE loc

\* The dict appended to demo_data.  datetime stands for the string
\* current_date.replace(hour=hour, ...).isoformat() + 'Z', kept as its fields.
reading(loc, date, hour, param, value, w) ==
    [datetime |-> [year |-> date.year, month |-> date.month, day |-> date.day,
                   hour |-> hour],
     location |-> loc,
     parameter |-> param,
     value |-> value,
     unit |-> IF param \in {"pm25", "pm10"} THEN "ug/m3" ELSE "ppb",
     city |-> city_of(loc),
     country |-> IF in_str(<<"b", "r", "a", "s", "i", "l">>, lower(loc))
                    \/ in_str(<<"s", "a~", "o">>, lower(loc))
                 THEN "BR" ELSE "US",
     latitude |-> IF in_str(location_profiles[1].key, lower(loc)) THEN Float(-23550, 1000)
                  ELSE IF in_str(location_profiles[2].key, lower(loc))
                  THEN Float(-15601, 1000) ELSE Float(51507, 1000),
     longitude |-> IF in_str(location_profiles[1].key, lower(loc)) THEN Float(-46633, 1000)
                   ELSE IF in_str(location_profiles[2].key, lower(loc))
                   THEN Float(-56098, 1000) ELSE Float(-128, 1000),
     temperature |-> round(w.temperature, 10),
     humidity |-> round(w.humidity, 10),
     pressure |-> round(w.pressure, 10),
     wind_speed |-> round(w.wind_speed, 10)]

\* The factors of the code, as the table the loops below read: fac.hour[h].
code_factors ==
    [hour |-> [h \in 0..23 |-> hour_factor(h)]]

\* gen_params drawing the weather anew for every parameter, on the draws that
\* follow the one of the value.
RECURSIVE gen_params_resampled(_, _, _, _, _, _, _)
gen_params_resampled(g, date, hour, w, acc, i, k) ==
    IF i > Len(parameters) \/ Len(acc) >= g.limit THEN [data |-> acc, k |-> k]
    ELSE LET param == parameters[i]
             base == IF param \in DOMAIN g.profile.pollutants
                     THEN g.profile.pollutants[param] ELSE <<5, 50>>
             w2 == weather_sample(g.profile.weather, hour, g.rng, k + 1)
             value == reading_value(base, g.factors.hour[hour],
                                    weather_factor(w2.wind_speed, w2.humidity),
                                    seasonal_factor(date.month), Draw(g.rng, k))
         IN  gen_params_resampled(g, date, hour, w,
                                  Append(acc, reading(g.location, date, hour, param,
                                                      value, w2)),
                                  i + 1, k + 5)

\* The loop "for param in parameters" from the i-th parameter on.  g is the
\* call (location, limit, profile, random source, factors), acc is demo_data, k
\* the number of draws taken so far.
RECURSIVE gen_params(_, _, _, _, _, _, _)
gen_params(g, date, hour, w, acc, i, k) ==
    IF i > Len(parameters) \/ Len(acc) >= g.limit THEN [data |-> acc, k |-> k]
    ELSE LET param == parameters[i]
             base == IF param \in DOMAIN g.profile.pollutants
                     THEN g.profile.pollutants[param] ELSE <<5, 50>>
             value == reading_value(base, g.factors.hour[hour],
                                    weather_factor(w.wind_speed, w.humidity),
                                    seasonal_factor(date.month), Draw(g.rng, k))
         IN  gen_params(g, date, hour, w,
                        Append(acc, reading(g.location, date, hour, param, value, w)),
                        i + 1, k + 1)

\* The loop "for hour in range(24)" from hour on.
RECURSIVE gen_hours(_, _, _, _, _)
gen_hours(g, date, hour, acc, k) ==
    IF hour > 23 \/ Len(acc) >= g.limit THEN [data |-> acc, k |-> k]
    ELSE LET w == weather_sample(g.profile.weather, hour, g.rng, k)
             res == gen_params(g, date, hour, w, acc, 1, k + 4)
         IN  gen_hours(g, date, hour + 1, res.data, res.k)

\* The loop "while current_date <= end and len(demo_data) < limit"; raised where
\* current_date += timedelta(days=1) raises OverflowError.
RECURSIVE gen_days(_, _, _, _, _)
gen_days(g, current_date, end, acc, k) ==
    IF ~(DateLe(current_date, end) /\ Len(acc) < g.limit)
    THEN [data |-> acc, raised |-> FALSE]
    ELSE LET res == gen_hours(g, current_date, 0, acc, k)
             next == next_day(current_date)
         IN  IF ~next.ok THEN [data |-> res.data, raised |-> TRUE]
             ELSE gen_days(g, next, end, res.data, res.k)

\* generate_realistic_air_quality_data(location, date_from, date_to, limit) with
\* the given factors, on the random source r: the list returned.  (The local
\* records_per_day is computed and never read.)
generate_with(fac, loc, dfrom, dto, lim, r) ==
    IF loc = << >> \/ dfrom = << >> \/ dto = << >> THEN << >>
    ELSE LET start == strptime(dfrom)
             end == strptime(dto)
         IN  IF ~start.ok \/ ~end.ok THEN << >>
             ELSE IF ~DateLe(start, end) THEN << >>
             ELSE LET res == gen_days([location |-> loc, limit |-> lim,
                                       profile |-> get_location_profile(loc),
                                       rng |-> r, factors |-> fac],
                                      start, end, << >>, 0)
                  IN  IF res.raised THEN << >> ELSE res.data

generate_realistic_air_quality_data(loc, dfrom, dto, lim, r) ==
    generate_with(code_factors, loc, dfrom, dto, lim, r)

----------------------------------------------------------------------------
(* openaq (app/external_data.py): from demo_data to the table handed to      *)
(* classify_aqi.                                                           *)

\* Whether pd.to_datetime(..., errors='coerce') keeps the timestamp: a year
\* outside the range of a nanosecond Timestamp (1677-09-21 .. 2262-04-11)
\* becomes NaT, and dropna removes the row.
in_timestamp_range(dt) == 1678 <= dt.year /\ dt.year <= 2261

DtKey(dt) == ((dt.year * 12 + (dt.month - 1)) * 31 + (dt.day - 1)) * 24 + dt.hour

\* The elements of a set of timestamps in ascending order (sort_values).
RECURSIVE sorted(_)
sorted(S) ==
    IF S = {} THEN << >>
    ELSE LET m == CHOOSE x \in S : \A y \in S : DtKey(x) <= DtKey(y)
         IN  <<m>> \o sorted(S \ {m})

\* The sum of cells[lo..hi], added by halves (the sum is exact, so the order of
\* the additions does not show).
RECURSIVE sum(_, _, _)
sum(cells, lo, hi) ==
    IF lo > hi THEN Num(0)
    ELSE IF lo = hi THEN cells[lo]
    ELSE LET mid == (lo + hi) \div 2
         IN  Add(sum(cells, lo, mid), sum(cells, mid + 1, hi))

\* The mean of a non-empty sequence of floats.
mean(cells) == Div(sum(cells, 1, Len(cells)), Num(Len(cells)))

\* The readings of data that pivot_table aggregates into the cell (dt, param).
cell_values(data, dt, param) ==
    LET idx == {i \in DOMAIN data : data[i].datetime = dt /\ data[i].parameter = param}
        RECURSIVE seq_of(_)
        seq_of(I) == IF I = {} THEN << >>
                     ELSE LET i == CHOOSE j \in I : \A l \in I : j <= l
                          IN  <<data[i].value>> \o seq_of(I \ {i})
    IN  seq_of(idx)

\* df[col].fillna(df[col].mean())
fillna_mean(cells) ==
    LET present == SelectSeq(cells, LAMBDA x : ~isna(x))
    IN  IF present = << >> THEN cells
        ELSE [r \in DOMAIN cells |-> IF isna(cells[r]) THEN mean(present) ELSE cells[r]]

\* df_pivot: one row per timestamp in ascending order, one column per parameter
\* with a reading (the mean of its values at the timestamp, NaN where it has
\* none), every column with its NaN filled by the column's mean.
pivot(data) ==
    LET kept == SelectSeq(data, LAMBDA x : in_timestamp_range(x.datetime))
        index == sorted({kept[i].datetime : i \in DOMAIN kept})
        params == {kept[i].parameter : i \in DOMAIN kept}
    IN  [n |-> Len(index),
         col |-> [c \in params \cup {"datetime"} |->
                    IF c = "datetime" THEN index
                    ELSE fillna_mean([r \in DOMAIN index |->
                            LET vs == cell_values(kept, index[r], c)
                            IN  IF vs = << >> THEN NaN ELSE mean(vs)])]]

----------------------------------------------------------------------------
(* Values of the variables of the functions that are not being called.      *)

NoTable == [n |-> 0, col |-> << >>]

IdleSubIndex == pollutant = "" /\ concentration = None /\ sub_index = None
IdleCategory == aqi = None /\ category = ""
IdleClassify == df_in = NoTable /\ df = NoTable /\ status = ""
\* No pass of the loop body is being followed.
NoLocals == << >>
IdleBody == locals = NoLocals

\* No request is being handled.
NoResponse == << >>
IdleWeb ==
    /\ now = 0 /\ timer = "none" /\ exceptions = {} /\ response = NoResponse
    /\ files = {} /\ datasets = << >> /\ users = << >> /\ history = << >>

IdleGenerate ==
    /\ location = << >> /\ date_from = << >> /\ date_to = << >>
    /\ limit = 0 /\ demo_data = << >>
    /\ IdleBody

----------------------------------------------------------------------------
(* SpecFunctions: calculate_sub_index and get_category as pure functions,   *)
(* on concentrations around every breakpoint and on indices across and     *)
(* beyond the bands.                                                        *)

\* Concentrations are taken up to MaxOffset hundredths below and above every
\* bp_low and bp_high; indices in halves from -1 to MaxAqi.
MaxOffset == 5
MaxAqi == 600

PollutantNames == Pollutants \cup {"PM25", "nh3"}

BoundaryValues(p) ==
    {breakpoints_external[p][i][j] : i \in DOMAIN breakpoints_external[p], j \in {1, 2}}

Concentrations(p) ==
    LET q == IF p \in Pollutants THEN p ELSE "pm25"
    IN  {NaN, Str} \cup
        {Add(b, Hundredths(o)) : b \in BoundaryValues(q), o \in (0 - MaxOffset)..MaxOffset}

AqiValues == {NaN} \cup {Float(k, 2) : k \in (0 - 2)..(2 * MaxAqi)}

InitFunctions ==
    /\ variant \in Variants
    /\ \/ /\ pollutant \in PollutantNames
          /\ concentration \in Concentrations(pollutant)
          /\ aqi = None
       \/ /\ pollutant = ""
          /\ concentration = None
          /\ aqi \in AqiValues
    /\ sub_index = None
    /\ category = ""
    /\ IdleClassify
    /\ IdleGenerate
    /\ IdleWeb
    /\ rng = 0

\* A call of calculate_sub_index(concentration, pollutant).
CalculateSubIndex ==
    /\ concentration # None
    /\ sub_index = None
    /\ sub_index' = calculate_sub_index(variant, concentration, pollutant)
    /\ UNCHANGED <<variant, pollutant, concentration, aqi, category, df_in, df,
                   status, location, date_from, date_to, limit, rng, demo_data, locals, web_vars>>

\* A call of get_category(aqi).
GetCategory ==
    /\ aqi # None
    /\ category = ""
    /\ category' = get_category(variant, aqi)
    /\ UNCHANGED <<variant, pollutant, concentration, sub_index, aqi, df_in, df,
                   status, location, date_from, date_to, limit, rng, demo_data, locals, web_vars>>

NextFunctions == CalculateSubIndex \/ GetCategory

SpecFunctions == InitFunctions /\ [][NextFunctions]_vars

----------------------------------------------------------------------------
(* SpecClassify: classify_aqi, in both variants, on tables of up to MaxRows  *)
(* rows.                                                                   *)

MaxRows == 2

\* The pollutant columns of the input tables.
PollutantColumnSets ==
    { {}, {"pm25"}, {"co"}, {"pm25", "pm10"}, {"o3", "co"}, {"pm10", "so2", "no2"} }

\* The cells of a pollutant column: missing, a str, inside a segment, between
\* two segments, below 0, above the last segment.
CellValues(p) ==
    CASE p = "pm25" -> {NaN, Str, Num(12), Hundredths(1205)}
      [] p = "pm10" -> {Num(154), Num(700)}
      [] p = "o3" -> {Str, Num(60)}
      [] p = "co" -> {Hundredths(440050), Num(2200)}
      [] p = "so2" -> {Num(-1), Num(100)}
      [] p = "no2" -> {NaN, Num(53)}

\* The other columns of the input tables, each with the cell it holds in every
\* row.
ExtraColumnSets ==
    { {}, {"Overall_AQI"}, {"Overall_AQI", "AQI_Category"},
      {"temperature", "humidity", "pressure", "wind_speed", "station"},
      {"AQI_so2", "temperature"}, {"AQI_o3"} }

ExtraCell(c) ==
    CASE c = "Overall_AQI" -> Num(42)
      [] c = "AQI_Category" -> "Boa"
      [] c = "temperature" -> Num(21)
      [] c = "humidity" -> Num(95)
      [] c = "pressure" -> Num(1000)
      [] c = "wind_speed" -> Num(11)
      [] c = "station" -> Str
      [] c = "AQI_so2" -> Num(170)
      [] c = "AQI_o3" -> Float(101, 2)

\* Every choice of n cells for each column of ps.
RECURSIVE PollutantCells(_, _)
PollutantCells(ps, n) ==
    IF ps = {} THEN { << >> }
    ELSE LET p == CHOOSE q \in ps : TRUE
         IN  { [c \in (DOMAIN f) \cup {p} |-> IF c = p THEN cells ELSE f[c]] :
                 f \in PollutantCells(ps \ {p}, n), cells \in [1..n -> CellValues(p)] }

Table(n, cells, es) ==
    [n |-> n,
     col |-> [c \in (DOMAIN cells) \cup es |->
                 IF c \in DOMAIN cells THEN cells[c] ELSE [r \in 1..n |-> ExtraCell(c)]]]

InputTables ==
    UNION { UNION { { Table(n, cells, es) : cells \in PollutantCells(ps, n),
                                           es \in ExtraColumnSets } :
                    ps \in PollutantColumnSets } : n \in 1..MaxRows }

\* The random sources of the calls of classify_aqi.
ClassifyStreams == {4, 5}

InitClassify ==
    /\ variant \in Variants
    /\ df_in \in InputTables
    /\ df = df_in
    /\ status = "called"
    /\ rng \in ClassifyStreams
    /\ IdleSubIndex
    /\ IdleCategory
    /\ IdleWeb
    /\ IdleGenerate

\* A call of classify_aqi(df): the whole function, its except branch included.
Classify ==
    /\ status = "called"
    /\ LET res == classify_aqi(variant, df, rng)
       IN  /\ df' = res.df
           /\ status' = IF res.raised THEN "raised" ELSE "returned"
    /\ UNCHANGED <<variant, pollutant, concentration, sub_index, aqi, category, df_in,
                   location, date_from, date_to, limit, rng, demo_data, locals, web_vars>>

NextClassify == Classify

SpecClassify == InitClassify /\ [][NextClassify]_vars

----------------------------------------------------------------------------
(* SpecGenerate: generate_realistic_air_quality_data on locations, date      *)
(* strings and limits, and the openaq pipeline on what it returns.          *)

\* limit ranges over 0..MaxLimit and over one more than a full day of readings.
MaxLimit == 7

Locations ==
    { << >>, <<"s", "a~", "o", " ", "p", "a", "u", "l", "o">>,
      <<"C", "u", "i", "a", "b", "a'", ",", " ", "M", "T">>,
      <<"A", "t", "l", "a", "n", "t", "i", "s">> }

DateStrings ==
    { << >>, <<"2", "0", "2", "4", "-", "0", "1", "-", "0", "1">>,
      <<"2", "0", "2", "4", "-", "1", "-", "2">>,
      <<"2", "0", "2", "4", "-", "0", "6", "-", "3", "0">>,
      <<"2", "0", "2", "4", "-", "0", "2", "-", "3", "0">>,
      <<"2", "4", "-", "0", "1", "-", "0", "1">>,
      <<"9", "9", "9", "9", "-", "1", "2", "-", "3", "1">> }

Limits == (0..MaxLimit) \cup {6 * 24 + 1}

InitGenerate ==
    /\ variant = "external_data"
    /\ location \in Locations
    /\ date_from \in DateStrings
    /\ date_to \in DateStrings
    /\ limit \in Limits
    /\ rng \in DOMAIN Streams
    /\ demo_data = << >>
    /\ status = "generate"
    /\ df_in = NoTable
    /\ df = NoTable
    /\ IdleSubIndex
    /\ IdleCategory
    /\ IdleWeb
    /\ IdleBody

\* A call of generate_realistic_air_quality_data(location, date_from, date_to,
\* limit).
Generate ==
    /\ status = "generate"
    /\ demo_data' = generate_realistic_air_quality_data(location, date_from, date_to,
                                                        limit, rng)
    /\ status' = "generated"
    /\ UNCHANGED <<variant, pollutant, concentration, sub_index, aqi, category, df_in, df,
                   location, date_from, date_to, limit, rng, locals, web_vars>>

\* openaq, from "if not demo_data" to the call of classify_aqi(df_pivot.copy()).
Pivot ==
    /\ status = "generated"
    /\ demo_data # << >>
    /\ LET t == pivot(demo_data)
       IN  IF t.n = 0
           THEN status' = "no rows" /\ UNCHANGED <<df_in, df>>
           ELSE status' = "called" /\ df_in' = t /\ df' = t
    /\ UNCHANGED <<variant, pollutant, concentration, sub_index, aqi, category,
                   location, date_from, date_to, limit, rng, demo_data, locals, web_vars>>

NextGenerate == Generate \/ Pivot \/ Classify

SpecGenerate == InitGenerate /\ [][NextGenerate]_vars

----------------------------------------------------------------------------
(* SpecBody: one pass of the body of "for hour in range(24)", for every      *)
(* profile, hour and month: the weather sample of the hour, then the value  *)
(* of one of the parameters.  locals starts with the profile of the         *)
(* location (lines 205-207).                                                *)

\* A location for each key of location_profiles, and one with no key in it.
BodyLocations ==
    { <<"s", "a~", "o", " ", "p", "a", "u", "l", "o">>,
      <<"C", "u", "i", "a", "b", "a'", ",", " ", "M", "T">>,
      <<"B", "e", "l", "e'", "m">>,
      <<"T", "a", "n", "g", "a", "r", "a", " ", "d", "a", " ", "S", "e", "r", "r", "a">>,
      <<"L", "o", "n", "d", "o", "n">>,
      <<"n", "e", "w", " ", "y", "o", "r", "k">>,
      <<"d", "e", "f", "a", "u", "l", "t">>,
      <<"A", "t", "l", "a", "n", "t", "i", "s">> }

Hours == 0..23
Months == 1..12

InitBody ==
    /\ variant = "external_data"
    /\ location \in BodyLocations
    /\ rng \in DOMAIN Streams
    /\ LET profile == get_location_profile(location)
       IN  locals \in [hour : Hours, month : Months,
                       poll_profile : {profile.pollutants},
                       weather_profile : {profile.weather}]
    /\ status = "hour"
    /\ date_from = << >> /\ date_to = << >>
    /\ limit = 0 /\ demo_data = << >>
    /\ df_in = NoTable
    /\ df = NoTable
    /\ IdleSubIndex
    /\ IdleCategory
    /\ IdleWeb

\* Lines 223-240: the weather of the hour, on the first four draws of the pass.
SampleWeather ==
    /\ status = "hour"
    /\ LET w == weather_sample(locals.weather_profile, locals.hour, rng, 0)
       IN  locals' = [hour |-> locals.hour, month |-> locals.month,
                      poll_profile |-> locals.poll_profile,
                      weather_profile |-> locals.weather_profile,
                      temperature |-> w.temperature, humidity |-> w.humidity,
                      pressure |-> w.pressure, wind_speed |-> w.wind_speed]
    /\ status' = "param"
    /\ UNCHANGED <<variant, pollutant, concentration, sub_index, aqi, category, df_in, df,
                   location, date_from, date_to, limit, rng, demo_data, web_vars>>

\* Lines 247-273 for the i-th parameter: its value, on the draw that follows the
\* four of the weather and those of the parameters before it.
ComputeValue ==
    /\ status = "param"
    /\ \E i \in DOMAIN parameters :
          LET param == parameters[i]
              base == IF param \in DOMAIN locals.poll_profile
                      THEN locals.poll_profile[param] ELSE <<5, 50>>
              hf == hour_factor(locals.hour)
              wf == weather_factor(locals.wind_speed, locals.humidity)
              sf == seasonal_factor(locals.month)
              u == Draw(rng, 4 + i - 1)
          IN  locals' = [hour |-> locals.hour, month |-> locals.month,
                         poll_profile |-> locals.poll_profile,
                         weather_profile |-> locals.weather_profile,
                         temperature |-> locals.temperature,
                         humidity |-> locals.humidity,
                         pressure |-> locals.pressure,
                         wind_speed |-> locals.wind_speed,
                         param |-> param, base_min |-> base[1], base_max |-> base[2],
                         hour_factor |-> hf, weather_factor |-> wf,
                         random_factor |-> uniform(Tenths(7), Tenths(13), u),
                         seasonal_factor |-> sf,
                         value |-> reading_value(base, hf, wf, sf, u)]
    /\ status' = "valued"
    /\ UNCHANGED <<variant, pollutant, concentration, sub_index, aqi, category, df_in, df,
                   location, date_from, date_to, limit, rng, demo_data, web_vars>>

NextBody == SampleWeather \/ ComputeValue

SpecBody == InitBody /\ [][NextBody]_vars

----------------------------------------------------------------------------
(* SpecProfile: get_location_profile on location strings with one key, with *)
(* several, with none, in lower and in upper case.                          *)

\* str.upper() of a str, for the inputs.
ToUpper(st) ==
    [i \in 1..Len(st) |->
        IF \E j \in DOMAIN LowerChars : LowerChars[j] = st[i]
        THEN UpperChars[CHOOSE j \in DOMAIN LowerChars : LowerChars[j] = st[i]]
        ELSE st[i]]

ProfileKeys == {location_profiles[i].key : i \in DOMAIN location_profiles}

ProfileWords ==
    ProfileKeys \cup {ToUpper(k) : k \in ProfileKeys}
        \cup { << >>, <<"A", "t", "l", "a", "n", "t", "i", "s">> }

ProfilePrefixes == { << >>, <<"x", " ">> }
ProfileSuffixes == { << >>, <<",", " ", "M", "T">>, <<" ", "l", "o", "n", "d", "o", "n">> }

ProfileLocations ==
    {p \o w \o x : p \in ProfilePrefixes, w \in ProfileWords, x \in ProfileSuffixes}

InitProfile ==
    /\ variant = "external_data"
    /\ location \in ProfileLocations
    /\ status = "call"
    /\ locals = NoLocals
    /\ rng = 0
    /\ date_from = << >> /\ date_to = << >>
    /\ limit = 0 /\ demo_data = << >>
    /\ df_in = NoTable
    /\ df = NoTable
    /\ IdleSubIndex
    /\ IdleCategory
    /\ IdleWeb

\* profile = get_location_profile(location)
GetLocationProfile ==
    /\ status = "call"
    /\ locals' = [profile |-> get_location_profile(location)]
    /\ status' = "resolved"
    /\ UNCHANGED <<variant, pollutant, concentration, sub_index, aqi, category, df_in, df,
                   location, date_from, date_to, limit, rng, demo_data, web_vars>>

NextProfile == GetLocationProfile

SpecProfile == InitProfile /\ [][NextProfile]_vars

----------------------------------------------------------------------------
(* SpecTimeout: the POST of openaq from "with time_limit(30)" to its         *)
(* response, with the thread of the threading.Timer beside the request     *)
(* thread.  Time passes while the generator runs.                           *)

\* time_limit(30)
TimeLimitSeconds == 30

\* The clock advances by TickSeconds while the generator runs, up to MaxSeconds.
TickSeconds == 10
MaxSeconds == 50

TimeoutLocations ==
    { <<"s", "a~", "o", " ", "p", "a", "u", "l", "o">>,
      <<"A", "t", "l", "a", "n", "t", "i", "s">> }
TimeoutDates ==
    { <<"2", "0", "2", "4", "-", "0", "1", "-", "0", "1">>,
      <<"2", "0", "2", "4", "-", "0", "6", "-", "3", "0">> }
TimeoutLimits == {0, 1, 7}
TimeoutStreams == {1, 4}

InitTimeout ==
    /\ variant = "external_data"
    /\ location \in TimeoutLocations
    /\ date_from \in TimeoutDates
    /\ date_to = date_from
    /\ limit \in TimeoutLimits
    /\ rng \in TimeoutStreams
    /\ demo_data = << >>
    /\ status = "enter"
    /\ df_in = NoTable
    /\ df = NoTable
    /\ IdleSubIndex
    /\ IdleCategory
    /\ IdleBody
    /\ IdleWeb

\* time_limit.__enter__: timer = threading.Timer(seconds, timeout_handler);
\* timer.start(); yield.
EnterTimeLimit ==
    /\ status = "enter"
    /\ timer' = "started"
    /\ status' = "generating"
    /\ UNCHANGED <<variant, pollutant, concentration, sub_index, aqi, category, df_in, df,
                   location, date_from, date_to, limit, rng, demo_data, locals,
                   now, exceptions, response, files, datasets, users, history>>

\* The generator is still running: time passes.
GenerationRuns ==
    /\ status = "generating"
    /\ now < MaxSeconds
    /\ now' = now + TickSeconds
    /\ UNCHANGED <<variant, pollutant, concentration, sub_index, aqi, category, df_in, df,
                   status, location, date_from, date_to, limit, rng, demo_data, locals,
                   timer, exceptions, response, files, datasets, users, history>>

\* The Timer's thread, once the interval is over: it calls timeout_handler,
\* which raises TimeoutException in that thread.
TimerFires ==
    /\ timer = "started"
    /\ now >= TimeLimitSeconds
    /\ timer' = "fired"
    /\ exceptions' = exceptions \cup {[thread |-> "timer", type |-> "TimeoutException"]}
    /\ UNCHANGED <<variant, pollutant, concentration, sub_index, aqi, category, df_in, df,
                   status, location, date_from, date_to, limit, rng, demo_data, locals,
                   now, response, files, datasets, users, history>>

\* The responses of the handler.
TimeoutResponse ==
    [flash |-> "Operacao demorou muito tempo. Tente novamente.", category |-> "warning",
     to |-> "redirect external.openaq"]
NoDataResponse ==
    [flash |-> "Erro ao gerar dados de demonstracao.", category |-> "danger",
     to |-> "redirect external.openaq"]
ImportedResponse ==
    [flash |-> "Dados importados com sucesso!", category |-> "success",
     to |-> "render external/openaq.html"]

\* The request thread from the return of the generator on: the finally of
\* time_limit (timer.cancel()), the except TimeoutException of the handler for
\* an exception raised in this thread, and the rest of the handler up to its
\* response.
GenerationReturns ==
    /\ status = "generating"
    /\ timer' = IF timer = "started" THEN "cancelled" ELSE timer
    /\ status' = "responded"
    /\ IF \E e \in exceptions : e.thread = "request" /\ e.type = "TimeoutException"
       THEN /\ response' = TimeoutResponse
            /\ UNCHANGED <<demo_data, df_in, df, files, datasets>>
       ELSE /\ demo_data' = generate_realistic_air_quality_data(location, date_from, date_to,
                                                               limit, rng)
            /\ IF demo_data' = << >>
               THEN /\ response' = NoDataResponse
                    /\ UNCHANGED <<df_in, df, files, datasets>>
               ELSE /\ df_in' = pivot(demo_data')
                    /\ df' = classify_aqi("external_data", df_in', rng).df
                    /\ files' = files \cup {<<"openaq", location, now>>}
                    /\ datasets' =
                          Append(datasets,
                                 [filename |-> <<"openaq", location, now>>,
                                  rows_count |-> df'.n,
                                  columns_count |-> Cardinality(Columns(df')),
                                  source |-> "openaq"])
                    /\ response' = ImportedResponse
    /\ UNCHANGED <<variant, pollutant, concentration, sub_index, aqi, category,
                   location, date_from, date_to, limit, rng, locals,
                   now, exceptions, users, history>>

NextTimeout == EnterTimeLimit \/ GenerationRuns \/ TimerFires \/ GenerationReturns

SpecTimeout == InitTimeout /\ [][NextTimeout]_vars

----------------------------------------------------------------------------
(* SpecLogin: POST requests to login against one registered account, with  *)
(* a clock in minutes.                                                     *)

\* if self.login_attempts >= 5
LockThreshold == 5
\* timedelta(minutes=10)
LockMinutes == 10

\* The clock advances by TickMinutes up to MaxMinutes; at most MaxRequests
\* requests name the account.
TickMinutes == 5
MaxMinutes == 20
MaxRequests == 6

RegisteredEmail == "ana@example.org"
UnknownEmail == "eve@example.org"

\* A row of the table user: the columns the handlers read and write.  A
\* nullable column is << >> for None and <<t>> for the time t.
NewUser(active) ==
    [login_attempts |-> 0, locked_until |-> << >>, is_active |-> active,
     last_login |-> << >>, reset_token |-> << >>, token_expiration |-> << >>]

\* User.is_locked at the time t.
is_locked(user, t) ==
    IF user.locked_until = << >> THEN FALSE ELSE user.locked_until[1] > t

\* User.increment_login_attempts at the time t: the row afterwards.
increment_login_attempts(user, t) ==
    IF is_locked(user, t) THEN user
    ELSE LET attempts == user.login_attempts + 1
         IN  [user EXCEPT !.login_attempts = attempts,
                          !.locked_until = IF attempts >= LockThreshold
                                           THEN <<t + LockMinutes>> ELSE @]

\* User.reset_login_attempts: the row afterwards.
reset_login_attempts(user) ==
    IF user.login_attempts > 0 \/ user.locked_until # << >>
    THEN [user EXCEPT !.login_attempts = 0, !.locked_until = << >>]
    ELSE user

InitLogin ==
    /\ users \in {[e \in {RegisteredEmail} |-> NewUser(active)] : active \in BOOLEAN}
    /\ now = 0
    /\ history = << >>
    /\ response = NoResponse
    /\ timer = "none" /\ exceptions = {} /\ files = {} /\ datasets = << >>
    /\ variant = "external_data"
    /\ rng = 1
    /\ IdleSubIndex
    /\ IdleCategory
    /\ IdleClassify
    /\ IdleGenerate

\* The clock.
Tick ==
    /\ now < MaxMinutes
    /\ now' = now + TickMinutes
    /\ UNCHANGED <<variant, pollutant, concentration, sub_index, aqi, category, df_in, df,
                   status, location, date_from, date_to, limit, rng, demo_data, locals,
                   timer, exceptions, response, files, datasets, users, history>>

\* What a request to login leaves in the history of the account.
Attempt(outcome, correct, before, after) ==
    [outcome |-> outcome, correct |-> correct, at |-> now,
     was_locked |-> is_locked(before, now), locked |-> is_locked(after, now),
     before |-> before, after |-> after]

\* login(): a POST with the form's email and a password that is the account's
\* or not, from a client that is logged in or not, with a form that validates
\* or not.
Login(authenticated, valid, email, correct) ==
    /\ Len(history) < MaxRequests
    /\ IF authenticated
       THEN /\ response' = [flash |-> "", to |-> "redirect main.dashboard"]
            /\ UNCHANGED <<users, history>>
       ELSE IF ~valid
       THEN /\ response' = [flash |-> "", to |-> "render auth/login.html"]
            /\ UNCHANGED <<users, history>>
       ELSE IF email \notin DOMAIN users
       THEN /\ response' = [flash |-> "Email ou senha incorretos.",
                            to |-> "render auth/login.html"]
            /\ UNCHANGED <<users, history>>
       ELSE LET user == users[email]
            IN  IF is_locked(user, now)
                THEN /\ response' = [flash |-> "Conta temporariamente bloqueada.",
                                     to |-> "render auth/login.html"]
                     /\ UNCHANGED users
                     /\ history' = Append(history, Attempt("refused", correct, user, user))
                ELSE IF correct
                THEN IF ~user.is_active
                     THEN /\ response' = [flash |-> "Sua conta esta desativada.",
                                          to |-> "render auth/login.html"]
                          /\ UNCHANGED users
                          /\ history' = Append(history,
                                               Attempt("inactive", correct, user, user))
                     ELSE LET after == [reset_login_attempts(user)
                                           EXCEPT !.last_login = <<now>>]
                          IN  /\ response' = [flash |-> "", to |-> "redirect main.dashboard"]
                              /\ users' = [users EXCEPT ![email] = after]
                              /\ history' = Append(history,
                                                   Attempt("success", correct, user, after))
                ELSE LET after == increment_login_attempts(user, now)
                     IN  /\ response' = [flash |-> "Email ou senha incorretos.",
                                         to |-> "render auth/login.html"]
                         /\ users' = [users EXCEPT ![email] = after]
                         /\ history' = Append(history,
                                              Attempt("failure", correct, user, after))
    /\ UNCHANGED <<variant, pollutant, concentration, sub_index, aqi, category, df_in, df,
                   status, location, date_from, date_to, limit, rng, demo_data, locals,
                   now, timer, exceptions, files, datasets>>

NextLogin ==
    \/ Tick
    \/ \E authenticated \in BOOLEAN, valid \in BOOLEAN,
          email \in {RegisteredEmail, UnknownEmail}, correct \in BOOLEAN :
          Login(authenticated, valid, email, correct)

SpecLogin == InitLogin /\ [][NextLogin]_vars

----------------------------------------------------------------------------
(* SpecReset: POST requests to reset_password_request, with the account of  *)
(* RegisteredEmail in the table user or not.                                *)

\* At most MaxResetRequests requests are followed.
MaxResetRequests == 2

InitReset ==
    /\ users \in {[e \in S |-> NewUser(TRUE)] : S \in SUBSET {RegisteredEmail}}
    /\ now = 0
    /\ history = << >>
    /\ response = NoResponse
    /\ timer = "none" /\ exceptions = {} /\ files = {} /\ datasets = << >>
    /\ variant = "external_data"
    /\ rng = 1
    /\ IdleSubIndex
    /\ IdleCategory
    /\ IdleClassify
    /\ IdleGenerate

\* The attributes of a User: its columns and relationships, the methods of the
\* class and those of UserMixin and db.Model the handlers could name.
UserAttributes ==
    {"id", "username", "email", "password_hash", "is_admin", "is_active", "created_at",
     "last_login", "login_attempts", "locked_until", "reset_token", "token_expiration",
     "datasets", "ml_models", "alerts", "system_logs", "set_password", "check_password",
     "is_locked", "increment_login_attempts", "reset_login_attempts", "get_reset_token",
     "verify_reset_token", "is_authenticated", "is_anonymous", "get_id", "query"}

ResetSentResponse ==
    [flash |-> "Se o email existir em nosso sistema, enviaremos instrucoes para resetar sua senha.",
     to |-> "redirect auth.login"]
ServerErrorResponse == [flash |-> "", to |-> "500 Internal Server Error"]

\* reset_password_request(): a POST with the form's email, from a client that
\* is logged in or not, with a form that validates or not.
ResetPasswordRequest(authenticated, valid, email) ==
    /\ Len(history) < MaxResetRequests
    /\ LET request == [authenticated |-> authenticated, valid |-> valid, email |-> email,
                       registered |-> email \in DOMAIN users, at |-> now]
           answer ==
              IF authenticated THEN [flash |-> "", to |-> "redirect main.dashboard"]
              ELSE IF ~valid
              THEN [flash |-> "", to |-> "render auth/reset_password_request.html"]
              ELSE IF email \in DOMAIN users /\ "generate_reset_token" \notin UserAttributes
              THEN ServerErrorResponse
              ELSE ResetSentResponse
       IN  /\ response' = answer
           /\ exceptions' = IF answer = ServerErrorResponse
                            THEN exceptions \cup
                                    {[thread |-> "request", type |-> "AttributeError"]}
                            ELSE exceptions
           /\ history' = Append(history,
                                [request |-> request, response |-> answer, users |-> users])
    /\ UNCHANGED <<variant, pollutant, concentration, sub_index, aqi, category, df_in, df,
                   status, location, date_from, date_to, limit, rng, demo_data, locals,
                   now, timer, files, datasets, users>>

NextReset ==
    \/ Tick
    \/ \E authenticated \in BOOLEAN, valid \in BOOLEAN,
          email \in {RegisteredEmail, UnknownEmail} :
          ResetPasswordRequest(authenticated, valid, email)

SpecReset == InitReset /\ [][NextReset]_vars

----------------------------------------------------------------------------
(* Claims on calculate_sub_index and get_category (SpecFunctions).          *)

SubIndexReturned == concentration # None /\ sub_index # None
CategoryReturned == aqi # None /\ category # ""

\* C1: for every recognised pollutant and every segment of its table, in both
\* variants, calculate_sub_index returns exactly i_high at bp_high and exactly
\* i_low at bp_low.
C1_BoundaryExact ==
    (SubIndexReturned /\ pollutant \in Pollutants) =>
        \A i \in DOMAIN breakpoints(variant)[pollutant] :
            LET seg == breakpoints(variant)[pollutant][i]
            IN  /\ concentration = seg[2] => sub_index = Num(seg[4])
                /\ concentration = seg[1] => sub_index = Num(seg[3])

C1_Witness ==
    /\ SubIndexReturned
    /\ variant = "utils"
    /\ pollutant = "pm25"
    /\ concentration = Tenths(354)
    /\ sub_index = Num(100)

\* The bands as the claim C3 states them.
ClaimBands ==
    << <<0, 50, "Boa">>, <<51, 100, "Moderada">>,
       <<101, 150, "Ruim para Grupos Sensiveis">>, <<151, 200, "Ruim">>,
       <<201, 300, "Muito Ruim">>, <<301, 500, "Perigosa">> >>

InBand(b, a) == Le(Num(b[1]), a) /\ Le(a, Num(b[2]))

\* C3: get_category maps an index inside a band (both ends included) to that
\* band's category, NaN to Indisponivel, and every other index to Perigosa.
C3_CategoryBands ==
    CategoryReturned =>
        /\ isna(aqi) => category = "Indisponivel"
        /\ ~isna(aqi) =>
              /\ \A i \in DOMAIN ClaimBands :
                    InBand(ClaimBands[i], aqi) => category = ClaimBands[i][3]
              /\ (\A i \in DOMAIN ClaimBands : ~InBand(ClaimBands[i], aqi)) =>
                    category = "Perigosa"

C3_Witness ==
    /\ CategoryReturned
    /\ variant = "external_data"
    /\ aqi = Float(101, 2)
    /\ category = "Perigosa"

\* The bp_high of the last segment of the pollutant's table.
LastBpHigh(v, p) == breakpoints(v)[p][Len(breakpoints(v)[p])][2]

\* C6: every concentration from 0 up to the bp_high of the last segment lies
\* in a segment, so it gets a sub-index that is not NaN.
C6_NoHoles ==
    ( /\ SubIndexReturned
      /\ pollutant \in Pollutants
      /\ IsFloat(concentration)
      /\ Le(Num(0), concentration)
      /\ Le(concentration, LastBpHigh(variant, pollutant)) ) => ~isna(sub_index)

\* C10: the sub-index is NaN whenever the concentration is NaN or the
\* pollutant is not one of pm25, pm10, o3, co, so2, no2.
C10_NaNSubIndex ==
    ( /\ SubIndexReturned
      /\ \/ isna(concentration)
         \/ pollutant \notin {"pm25", "pm10", "o3", "co", "so2", "no2"} ) =>
        isna(sub_index)

C10_Witness ==
    /\ SubIndexReturned
    /\ pollutant = "nh3"
    /\ concentration = Num(12)
    /\ isna(sub_index)

----------------------------------------------------------------------------
(* Claims on classify_aqi (SpecClassify).                                   *)

AQIColumns == {"AQI_pm25", "AQI_pm10", "AQI_o3", "AQI_co", "AQI_so2", "AQI_no2"}

\* A pollutant column of the table holds a str: calculate_sub_index raises on it.
Malformed(t) ==
    \E p \in Pollutants \cap Columns(t) : \E r \in 1..t.n : t.col[p][r] = Str

\* The sub-indices of row r of the classified table that are not NaN.
RowSubIndices(t, r) ==
    {x \in {t.col[c][r] : c \in AQIColumns \cap Columns(t)} : ~isna(x)}

\* C2: Overall_AQI of a row is the maximum of the row's sub-indices that are not
\* NaN, and NaN only when every sub-index of the row is NaN.
C2_OverallIsMax ==
    (status = "returned" /\ ~Malformed(df_in)) =>
        \A r \in 1..df.n :
            LET xs == RowSubIndices(df, r)
                o  == df.col["Overall_AQI"][r]
            IN  /\ xs = {} => isna(o)
                /\ xs # {} => (o \in xs /\ \A y \in xs : Le(y, o))

C2_Witness ==
    /\ status = "returned"
    /\ Columns(df_in) = {"pm10", "so2", "no2"}
    /\ df.col["AQI_no2"][1] = Num(50)
    /\ df.col["AQI_pm10"][1] = Num(100)
    /\ isna(df.col["AQI_so2"][1])
    /\ df.col["Overall_AQI"][1] = Num(100)

\* C4: when an internal error is raised in classify_aqi of app/external_data.py,
\* the function does not raise and the returned table has both an Overall_AQI
\* and an AQI_Category column.
C4_ColumnsAfterFault ==
    (variant = "external_data" /\ status # "called" /\ Malformed(df_in)) =>
        /\ status = "returned"
        /\ {"Overall_AQI", "AQI_Category"} \subseteq Columns(df)

----------------------------------------------------------------------------
(* Claims on generate_realistic_air_quality_data and the pipeline of openaq *)
(* (SpecGenerate).                                                          *)

Generated == status # "generate"

\* The arguments pass the validation the claims C8 and C9 describe: no empty
\* field, both dates parse, date_from is not later than date_to.
ValidInput ==
    /\ location # << >> /\ date_from # << >> /\ date_to # << >>
    /\ strptime(date_from).ok /\ strptime(date_to).ok
    /\ DateLe(strptime(date_from), strptime(date_to))

\* The days of the years before year y, and the day's number from 0001-01-01.
DaysBeforeYear(y) == 365 * (y - 1) + ((y - 1) \div 4) - ((y - 1) \div 100) + ((y - 1) \div 400)

RECURSIVE DaysBeforeMonth(_, _)
DaysBeforeMonth(y, m) ==
    IF m = 1 THEN 0 ELSE DaysBeforeMonth(y, m - 1) + DaysInMonth(y, m - 1)

Ordinal(a) == DaysBeforeYear(a.year) + DaysBeforeMonth(a.year, a.month) + a.day

\* D: the calendar days in [date_from, date_to], both included.
DaysInRange == Ordinal(strptime(date_to)) - Ordinal(strptime(date_from)) + 1

Min(a, b) == IF a <= b THEN a ELSE b

\* The profile of the location has a range for each of the six pollutants.
PollutantComplete(loc) ==
    Pollutants \subseteq DOMAIN get_location_profile(loc).pollutants

\* C5: for a location with a pollutant-complete profile, valid dates and a
\* limit of at least 1, the table classify_aqi returns for the pivoted output of
\* the generator has no NaN Overall_AQI in a row whose timestamp has a reading.
C5_RoundTripNoNaN ==
    ( /\ status = "returned"
      /\ ValidInput
      /\ limit >= 1
      /\ PollutantComplete(location) ) =>
        \A r \in 1..df.n :
            (\E i \in DOMAIN demo_data : demo_data[i].datetime = df.col["datetime"][r])
                => ~isna(df.col["Overall_AQI"][r])

\* The factors as the claim C7 states them.
claimed_factors ==
    [hour |-> [h \in 0..23 |-> hour_factor_overnight(h)]]

\* C7: the values of the readings are those obtained with the hour factor 1.8
\* for the hours 7-9 and 17-19, 1.3 for 10-16, 0.6 for 20-23 and 0-6, and 1.0
\* for any other hour.
C7_HourFactor ==
    Generated =>
        demo_data = generate_with(claimed_factors, location, date_from, date_to, limit, rng)

\* C8: the generator returns the empty list when a field is empty, a date does
\* not parse or date_from is later than date_to, and a non-empty list for every
\* other input with a limit of at least 1.
C8_EmptyIffInvalid ==
    Generated =>
        /\ ~ValidInput => demo_data = << >>
        /\ (ValidInput /\ limit >= 1) => demo_data # << >>

\* C9: for valid inputs with a limit of at least 1 the generator returns
\* exactly min(limit, 6 * 24 * D) readings, each dated within
\* [date_from, date_to].
C9_CountAndRange ==
    (Generated /\ ValidInput /\ limit >= 1) =>
        /\ Len(demo_data) = Min(limit, 6 * 24 * DaysInRange)
        /\ \A i \in DOMAIN demo_data :
              /\ DateLe(strptime(date_from), demo_data[i].datetime)
              /\ DateLe(demo_data[i].datetime, strptime(date_to))

----------------------------------------------------------------------------
(* Further claims on classify_aqi (SpecClassify).                           *)

\* The call of classify_aqi is over (it returned or raised).
ClassifyDone == status \in {"returned", "raised"}

\* A float below 0 or above the bp_high of the last segment of the table.
OutOfDomain(v, p, c) ==
    IsFloat(c) /\ (Lt(c, Num(0)) \/ Lt(LastBpHigh(v, p), c))

\* C11: on a table without a malformed cell classify_aqi returns with every
\* row kept; a concentration below 0 or above the last bp_high has a NaN
\* sub-index, the sub-indices of the other pollutants of its row are those of
\* their own concentrations, and when one of them is not NaN Overall_AQI is not
\* NaN, is no less than any of them and AQI_Category is its category.
C11_OutOfDomainCell ==
    (ClassifyDone /\ ~Malformed(df_in)) =>
        /\ status = "returned"
        /\ df.n = df_in.n
        /\ \A p \in Pollutants \cap Columns(df_in) : \A r \in 1..df_in.n :
              OutOfDomain(variant, p, df_in.col[p][r]) =>
                 LET qs == (Pollutants \cap Columns(df_in)) \ {p}
                     others == {x \in {df.col[AQICol(q)][r] : q \in qs} : ~isna(x)}
                     o == df.col["Overall_AQI"][r]
                 IN  /\ isna(df.col[AQICol(p)][r])
                     /\ \A q \in qs :
                           df.col[AQICol(q)][r]
                              = calculate_sub_index(variant, df_in.col[q][r], q)
                     /\ others # {} =>
                           /\ ~isna(o)
                           /\ \A y \in others : Le(y, o)
                           /\ df.col["AQI_Category"][r] = get_category(variant, o)

C11_Witness ==
    /\ status = "returned"
    /\ variant = "utils"
    /\ Columns(df_in) = {"pm10", "so2", "no2"}
    /\ df_in.col["pm10"][1] = Num(700)
    /\ df_in.col["so2"][1] = Num(-1)
    /\ df_in.col["no2"][1] = Num(53)
    /\ isna(df.col["AQI_pm10"][1])
    /\ isna(df.col["AQI_so2"][1])
    /\ df.col["Overall_AQI"][1] = Num(50)
    /\ df.col["AQI_Category"][1] = "Boa"

\* C12: on a table with none of the six pollutant columns classify_aqi returns,
\* Overall_AQI is NaN and AQI_Category is Indisponivel in every row, and no
\* AQI_ column is added.
C12_NoPollutantColumn ==
    (ClassifyDone /\ Pollutants \cap Columns(df_in) = {}) =>
        /\ status = "returned"
        /\ df.n = df_in.n
        /\ \A r \in 1..df.n :
              /\ isna(df.col["Overall_AQI"][r])
              /\ df.col["AQI_Category"][r] = "Indisponivel"
        /\ AQIColumns \cap Columns(df) = AQIColumns \cap Columns(df_in)

\* The sub-indices of row r of the input table t: one per pollutant column
\* present, NaN left out.
PresentSubIndices(v, t, r) ==
    {x \in {calculate_sub_index(v, t.col[p][r], p) : p \in Pollutants \cap Columns(t)} :
        ~isna(x)}

\* C13: Overall_AQI of a row is the maximum of the sub-indices of the pollutant
\* columns present in the input (NaN when there is none), whatever other
\* columns the input carries; an AQI_ column is computed for each pollutant
\* present, and the AQI_ column of an absent pollutant is neither added nor
\* changed.
C13_OnlyPresentPollutants ==
    (status = "returned" /\ ~Malformed(df_in)) =>
        /\ \A r \in 1..df.n :
              LET xs == PresentSubIndices(variant, df_in, r)
                  o  == df.col["Overall_AQI"][r]
              IN  /\ xs = {} => isna(o)
                  /\ xs # {} => (o \in xs /\ \A y \in xs : Le(y, o))
        /\ \A p \in Pollutants :
              IF p \in Columns(df_in)
              THEN /\ AQICol(p) \in Columns(df)
                   /\ \A r \in 1..df.n :
                         df.col[AQICol(p)][r]
                            = calculate_sub_index(variant, df_in.col[p][r], p)
              ELSE /\ AQICol(p) \in Columns(df) <=> AQICol(p) \in Columns(df_in)
                   /\ AQICol(p) \in Columns(df) => df.col[AQICol(p)] = df_in.col[AQICol(p)]

----------------------------------------------------------------------------
(* Claims on the body of the generator's loop (SpecBody).                   *)

Sampled == status \in {"param", "valued"}
Valued == status = "valued"

\* C14: the value computed for a parameter is at least 0, for every profile,
\* hour, month, weather sample and random factor.
C14_ValueNonNegative ==
    Valued => Le(Num(0), locals.value)

C14_Witness ==
    /\ Valued
    /\ location = <<"L", "o", "n", "d", "o", "n">>
    /\ locals.param = "so2"
    /\ locals.hour = 0
    /\ locals.month = 1
    /\ locals.random_factor = Tenths(7)
    /\ locals.value = Tenths(111)

----------------------------------------------------------------------------
(* Claims on get_location_profile (SpecProfile).                            *)

Resolved == status = "resolved"

\* The profile under the key 'default'.
DefaultProfile ==
    location_profiles[CHOOSE i \in DOMAIN location_profiles :
                         location_profiles[i].key = <<"d", "e", "f", "a", "u", "l", "t">>]

\* No key of location_profiles occurs in the location, whatever the case of
\* its letters.
NoKnownKey(loc) ==
    \A i \in DOMAIN location_profiles :
        \A k \in 0..(Len(loc) - Len(location_profiles[i].key)) :
            \E j \in 1..Len(location_profiles[i].key) :
                /\ loc[k + j] # location_profiles[i].key[j]
                /\ loc[k + j] # ToUpper(location_profiles[i].key)[j]

\* C15: get_location_profile returns one of the profiles for every location,
\* and the profile of 'default' for the location 'default' and for a location
\* in which no key occurs.
C15_ProfileTotal ==
    Resolved =>
        /\ \E i \in DOMAIN location_profiles : locals.profile = location_profiles[i]
        /\ location = <<"d", "e", "f", "a", "u", "l", "t">> => locals.profile = DefaultProfile
        /\ NoKnownKey(location) => locals.profile = DefaultProfile

C15_Witness ==
    /\ Resolved
    /\ location = <<"x", " ", "A", "t", "l", "a", "n", "t", "i", "s", ",", " ", "M", "T">>
    /\ locals.profile.pollutants.pm25 = <<10, 35>>
    /\ locals.profile.weather.temperature = <<15, 30>>

----------------------------------------------------------------------------
(* Claims on the weather backfill of classify_aqi (SpecClassify).           *)

\* The default ranges as the claim C16 states them.
ClaimedDefaultRange ==
    [temperature |-> <<15, 30>>, humidity |-> <<50, 85>>,
     pressure |-> <<1010, 1020>>, wind_speed |-> <<2, 8>>]

\* C16: when classify_aqi of app/external_data.py returns without a fault,
\* temperature, humidity, pressure and wind_speed are columns of the table, and
\* one that the input did not have holds a value of its default range in every
\* row.
C16_WeatherBackfill ==
    (variant = "external_data" /\ status = "returned" /\ ~Malformed(df_in)) =>
        \A f \in DOMAIN ClaimedDefaultRange :
            /\ f \in Columns(df)
            /\ f \notin Columns(df_in) =>
                  \A r \in 1..df.n :
                      /\ IsFloat(df.col[f][r])
                      /\ Le(Num(ClaimedDefaultRange[f][1]), df.col[f][r])
                      /\ Le(df.col[f][r], Num(ClaimedDefaultRange[f][2]))

C16_Witness ==
    /\ variant = "external_data"
    /\ status = "returned"
    /\ rng = 4
    /\ Columns(df_in) = {"pm25", "AQI_so2", "temperature"}
    /\ df.col["temperature"][1] = Num(21)
    /\ df.col["humidity"][1] = Float(135, 2)
    /\ df.col["pressure"][df.n] # df.col["humidity"][df.n]
    /\ "wind_speed" \in Columns(df)

----------------------------------------------------------------------------
(* Frame of classify_aqi (SpecClassify).                                    *)

\* The columns classify_aqi may write.
OwnedColumns == AQIColumns \cup {"Overall_AQI", "AQI_Category"}

\* C17: classify_aqi keeps the rows and every column of the input that is not
\* an AQI_ column, Overall_AQI or AQI_Category, cell by cell; the columns it
\* adds are AQI_ columns, Overall_AQI, AQI_Category and weather columns.
C17_Frame ==
    ClassifyDone =>
        /\ df.n = df_in.n
        /\ \A c \in Columns(df_in) \ OwnedColumns :
              c \in Columns(df) /\ df.col[c] = df_in.col[c]
        /\ Columns(df) \ Columns(df_in)
              \subseteq OwnedColumns \cup DOMAIN ClaimedDefaultRange

C17_Witness ==
    /\ status = "returned"
    /\ variant = "external_data"
    /\ df.n = 2
    /\ Columns(df_in) =
          {"pm25", "pm10", "temperature", "humidity", "pressure", "wind_speed", "station"}
    /\ df.col["station"] = df_in.col["station"]
    /\ df.col["temperature"] = <<Num(21), Num(21)>>
    /\ df.col["pm10"] = df_in.col["pm10"]
    /\ "AQI_pm10" \in Columns(df)

----------------------------------------------------------------------------
(* Claims on the weather of the hour (SpecBody).                            *)

\* C18: the weather factor of a value is 1.0 when the wind speed of the hour's
\* sample is at most 8 and its humidity at most 80, 0.7 when only the wind speed
\* is above 8, 1.2 when only the humidity is above 80, and 0.84 when both are.
C18_WeatherFactor ==
    Valued =>
        LET windy == Lt(Num(8), locals.wind_speed)
            humid == Lt(Num(80), locals.humidity)
        IN  /\ (~windy /\ ~humid) => locals.weather_factor = Num(1)
            /\ (windy /\ ~humid) => locals.weather_factor = Tenths(7)
            /\ (~windy /\ humid) => locals.weather_factor = Tenths(12)
            /\ (windy /\ humid) => locals.weather_factor = Hundredths(84)

C18_Witness ==
    /\ Valued
    /\ location = <<"L", "o", "n", "d", "o", "n">>
    /\ locals.hour = 0
    /\ Lt(Num(8), locals.wind_speed)
    /\ Lt(Num(80), locals.humidity)
    /\ locals.weather_factor = Hundredths(84)

\* lo <= x <= hi
Within(x, lo, hi) == IsFloat(x) /\ Le(Num(lo), x) /\ Le(x, Num(hi))

\* C19: the weather sample of an hour lies in the ranges of the profile and its
\* humidity in [0, 100]; in the hours 13-15 the temperature is in
\* [max - 5, max] and the humidity in [min, min + 20], in the hours 3-5 the
\* temperature is in [min, min + 5] and the humidity in [max - 20, max].
C19_WeatherInRange ==
    Sampled =>
        LET wp == locals.weather_profile
            h  == locals.hour
        IN  /\ Within(locals.temperature, wp.temperature[1], wp.temperature[2])
            /\ Within(locals.humidity, wp.humidity[1], wp.humidity[2])
            /\ Within(locals.humidity, 0, 100)
            /\ Within(locals.pressure, wp.pressure[1], wp.pressure[2])
            /\ Within(locals.wind_speed, wp.wind_speed[1], wp.wind_speed[2])
            /\ (13 <= h /\ h <= 15) =>
                  /\ Within(locals.temperature, wp.temperature[2] - 5, wp.temperature[2])
                  /\ Within(locals.humidity, wp.humidity[1], wp.humidity[1] + 20)
            /\ (3 <= h /\ h <= 5) =>
                  /\ Within(locals.temperature, wp.temperature[1], wp.temperature[1] + 5)
                  /\ Within(locals.humidity, wp.humidity[2] - 20, wp.humidity[2])

C19_Witness ==
    /\ status = "param"
    /\ location = <<"B", "e", "l", "e'", "m">>
    /\ locals.hour = 13
    /\ rng = 3
    /\ locals.humidity = Tenths(949)
    /\ locals.temperature = Float(31975, 1000)

----------------------------------------------------------------------------
(* The shape of the breakpoint tables (SpecFunctions).                      *)

\* The segments are in increasing order with gaps or nothing between them,
\* each has bp_low <= bp_high and i_low <= i_high, and the first starts at 0.
WellFormedTable(segs) ==
    /\ Len(segs) >= 1
    /\ segs[1][1] = Num(0)
    /\ \A i \in DOMAIN segs : Le(segs[i][1], segs[i][2]) /\ segs[i][3] <= segs[i][4]
    /\ \A i \in 1..(Len(segs) - 1) :
          Lt(segs[i][2], segs[i + 1][1]) /\ segs[i][4] < segs[i + 1][3]

\* C20: the table of the pollutant is well formed, the concentration lies in at
\* most one of its segments, and when it lies in one the sub-index returned is
\* the interpolation on that segment.
C20_SegmentsDisjoint ==
    (SubIndexReturned /\ pollutant \in Pollutants /\ IsFloat(concentration)) =>
        LET segs == breakpoints(variant)[pollutant]
            hits == {i \in DOMAIN segs : contains(segs[i], concentration)}
        IN  /\ WellFormedTable(segs)
            /\ Cardinality(hits) <= 1
            /\ \A i \in hits : sub_index = interpolate(segs[i], concentration)
            /\ hits = {} => isna(sub_index)

C20_Witness ==
    /\ SubIndexReturned
    /\ variant = "external_data"
    /\ pollutant = "pm10"
    /\ concentration = Num(155)
    /\ sub_index = Num(101)

----------------------------------------------------------------------------
(* The ranges of the profiles (SpecBody).                                   *)

\* Every pollutant and every weather variable has a range (min, max) with
\* min <= max in the profile.
CompleteProfile(poll, weather) ==
    /\ \A p \in Pollutants : p \in DOMAIN poll /\ poll[p][1] <= poll[p][2]
    /\ \A f \in DOMAIN ClaimedDefaultRange :
          f \in DOMAIN weather /\ weather[f][1] <= weather[f][2]

\* C21: every profile of the table, and so the one the generator resolved,
\* has a range with min <= max for the six pollutants and the four weather
\* variables, and the range a value is computed from is the profile's own,
\* never the fallback of poll_profile.get.
C21_ProfilesComplete ==
    /\ \A i \in DOMAIN location_profiles :
          CompleteProfile(location_profiles[i].pollutants, location_profiles[i].weather)
    /\ Sampled => CompleteProfile(locals.poll_profile, locals.weather_profile)
    /\ Valued =>
          /\ locals.param \in DOMAIN locals.poll_profile
          /\ <<locals.base_min, locals.base_max>> = locals.poll_profile[locals.param]

C21_Witness ==
    /\ Valued
    /\ location = <<"A", "t", "l", "a", "n", "t", "i", "s">>
    /\ locals.param = "no2"
    /\ locals.base_min = 15
    /\ locals.base_max = 50

----------------------------------------------------------------------------
(* The shape of the generator's output (SpecGenerate).                      *)

\* C22: no two readings of the output have the same timestamp and parameter,
\* and two readings with the same timestamp have the same temperature,
\* humidity, pressure and wind_speed.
C22_OneReadingPerCell ==
    Generated =>
        \A i \in DOMAIN demo_data : \A j \in (i + 1)..Len(demo_data) :
            demo_data[i].datetime = demo_data[j].datetime =>
                /\ demo_data[i].parameter # demo_data[j].parameter
                /\ demo_data[i].temperature = demo_data[j].temperature
                /\ demo_data[i].humidity = demo_data[j].humidity
                /\ demo_data[i].pressure = demo_data[j].pressure
                /\ demo_data[i].wind_speed = demo_data[j].wind_speed

C22_Witness ==
    /\ Generated
    /\ rng = 4
    /\ Len(demo_data) = 7
    /\ demo_data[1].datetime = demo_data[6].datetime
    /\ demo_data[1].parameter = "pm25" /\ demo_data[6].parameter = "no2"
    /\ demo_data[1].temperature = demo_data[6].temperature
    /\ demo_data[7].datetime # demo_data[6].datetime
    /\ demo_data[7].temperature # demo_data[6].temperature

\* The readings of a full day.
ReadingsPerDay == Len(parameters) * 24

\* C23: the i-th reading of the output is the i-th of the enumeration by day
\* from date_from, then hour 0..23, then parameter in the order of parameters;
\* so the timestamps do not decrease, only the last timestamp can have fewer
\* than six parameters, and the output has no more than limit readings.
C23_EnumerationPrefix ==
    (Generated /\ demo_data # << >>) =>
        /\ Len(demo_data) <= limit
        /\ \A i \in DOMAIN demo_data :
              LET dt == demo_data[i].datetime
              IN  /\ Ordinal(dt) = Ordinal(strptime(date_from)) + ((i - 1) \div ReadingsPerDay)
                  /\ dt.hour = ((i - 1) \div Len(parameters)) % 24
                  /\ demo_data[i].parameter = parameters[((i - 1) % Len(parameters)) + 1]
        /\ \A i \in 1..(Len(demo_data) - 1) :
              DtKey(demo_data[i].datetime) <= DtKey(demo_data[i + 1].datetime)
        /\ \A i \in DOMAIN demo_data :
              demo_data[i].datetime # demo_data[Len(demo_data)].datetime =>
                 Cardinality({j \in DOMAIN demo_data :
                                 demo_data[j].datetime = demo_data[i].datetime})
                    = Len(parameters)

C23_Witness ==
    /\ Generated
    /\ Len(demo_data) = ReadingsPerDay + 1
    /\ demo_data[ReadingsPerDay].datetime = [year |-> 2024, month |-> 1, day |-> 1, hour |-> 23]
    /\ demo_data[ReadingsPerDay].parameter = "no2"
    /\ demo_data[ReadingsPerDay + 1].datetime =
          [year |-> 2024, month |-> 1, day |-> 2, hour |-> 0]
    /\ demo_data[ReadingsPerDay + 1].parameter = "pm25"

----------------------------------------------------------------------------
(* The matching of get_location_profile (SpecProfile).                      *)

\* The i-th key of the table occurs in the location, whatever the case of the
\* letters.
KeyOccurs(i, loc) ==
    LET key == location_profiles[i].key
    IN  \E k \in 0..(Len(loc) - Len(key)) :
            \A j \in 1..Len(key) :
                loc[k + j] = key[j] \/ loc[k + j] = ToUpper(key)[j]

\* C24: the location resolves to the profile of the first key of the table that
\* occurs in it whatever the case of the letters (so to that of its only key
\* when it has one), and the same location in upper case and in lower case
\* resolves to the same profile.
C24_FirstKeyAnyCase ==
    Resolved =>
        LET hits == {i \in DOMAIN location_profiles : KeyOccurs(i, location)}
        IN  /\ hits # {} =>
                  locals.profile =
                     location_profiles[CHOOSE i \in hits : \A j \in hits : i <= j]
            /\ locals.profile = get_location_profile(ToUpper(location))
            /\ locals.profile = get_location_profile(lower(location))

C24_Witness ==
    /\ Resolved
    /\ location = <<"N", "E", "W", " ", "Y", "O", "R", "K", " ", "l", "o", "n", "d", "o", "n">>
    /\ locals.profile.pollutants.pm25 = <<8, 35>>
    /\ locals.profile.weather.wind_speed = <<5, 15>>

----------------------------------------------------------------------------
(* The deadline of openaq (SpecTimeout).                                    *)

\* C25: once the Timer of time_limit(30) has fired with the generator still
\* running, the request writes no file and commits no Dataset, and its
\* response is that of the timeout branch.
C25_TimeoutAbandons ==
    timer = "fired" =>
        /\ files = {}
        /\ datasets = << >>
        /\ status = "responded" => response = TimeoutResponse

----------------------------------------------------------------------------
(* The weather columns of the exported table (SpecGenerate).                *)

\* C26: after generate, pivot and classify_aqi, the temperature, humidity,
\* pressure and wind_speed of each row of the table are those of the
\* generator's readings at the row's timestamp, and lie within the weather
\* ranges of the location's profile.
C26_WeatherOfTheGenerator ==
    (status = "returned" /\ demo_data # << >>) =>
        LET wp == get_location_profile(location).weather
        IN  \A r \in 1..df.n :
                /\ \A f \in {"temperature", "humidity", "pressure", "wind_speed"} :
                      /\ f \in Columns(df)
                      /\ Within(df.col[f][r], wp[f][1], wp[f][2])
                /\ \A i \in DOMAIN demo_data :
                      demo_data[i].datetime = df.col["datetime"][r] =>
                          /\ df.col["temperature"][r] = demo_data[i].temperature
                          /\ df.col["humidity"][r] = demo_data[i].humidity
                          /\ df.col["pressure"][r] = demo_data[i].pressure
                          /\ df.col["wind_speed"][r] = demo_data[i].wind_speed

----------------------------------------------------------------------------
(* The range of the indices classify_aqi computes (SpecClassify).           *)

\* An index in [0, 500] and inside one of the six bands.
InSomeBand(x) ==
    /\ Within(x, 0, 500)
    /\ \E i \in DOMAIN ClaimBands : InBand(ClaimBands[i], x)

\* C27: on a table of concentrations every sub-index classify_aqi computes and
\* every Overall_AQI that is not NaN lies in [0, 500] and inside one of the six
\* bands, so that get_category never falls through on them, and AQI_Category
\* is Indisponivel exactly in the rows whose Overall_AQI is NaN.
C27_IndicesInBands ==
    (status = "returned" /\ ~Malformed(df_in)) =>
        \A r \in 1..df.n :
            LET o == df.col["Overall_AQI"][r]
            IN  /\ \A p \in Pollutants \cap Columns(df_in) :
                      ~isna(df.col[AQICol(p)][r]) => InSomeBand(df.col[AQICol(p)][r])
                /\ ~isna(o) => InSomeBand(o)
                /\ ~isna(o) =>
                      \E i \in DOMAIN ClaimBands :
                          /\ InBand(ClaimBands[i], o)
                          /\ df.col["AQI_Category"][r] = ClaimBands[i][3]
                /\ isna(o) <=> df.col["AQI_Category"][r] = "Indisponivel"

----------------------------------------------------------------------------
(* The two variants of classify_aqi (SpecClassify).                         *)

OtherVariant(v) == IF v = "utils" THEN "external_data" ELSE "utils"

IndexColumns == AQIColumns \cup {"Overall_AQI", "AQI_Category"}

\* C28: on a table on which nothing raises, classify_aqi of app/utils.py and
\* classify_aqi of app/external_data.py return the same AQI_ columns, the
\* same Overall_AQI and the same AQI_Category; the tables they return differ
\* only by the weather columns the variant of app/external_data.py fills in.
C28_VariantsAgree ==
    (status = "returned" /\ ~Malformed(df_in)) =>
        LET res == classify_aqi(OtherVariant(variant), df_in, rng)
            u == IF variant = "utils" THEN df ELSE res.df
            e == IF variant = "utils" THEN res.df ELSE df
        IN  /\ ~res.raised
            /\ u.n = e.n
            /\ IndexColumns \cap Columns(u) = IndexColumns \cap Columns(e)
            /\ \A c \in IndexColumns \cap Columns(u) : u.col[c] = e.col[c]
            /\ Columns(u) \subseteq Columns(e)
            /\ \A c \in Columns(u) : u.col[c] = e.col[c]
            /\ Columns(e) \ Columns(u) \subseteq
                  {weather_features[i] : i \in DOMAIN weather_features}

C28_Witness ==
    /\ status = "returned"
    /\ variant = "external_data"
    /\ Columns(df_in) = {"pm25", "pm10"}
    /\ df_in.n = 2
    /\ df_in.col["pm25"][1] = Num(12)
    /\ df_in.col["pm25"][2] = Hundredths(1205)
    /\ df_in.col["pm10"][1] = Num(154)
    /\ df.col["AQI_pm25"][1] = Num(50)
    /\ df.col["Overall_AQI"][1] = Num(100)
    /\ df.col["AQI_Category"][1] = "Moderada"
    /\ "temperature" \in Columns(df)
    /\ classify_aqi("utils", df_in, rng).df.col["Overall_AQI"][1] = Num(100)

----------------------------------------------------------------------------
(* The lock of an account (SpecLogin).                                      *)

\* The attempts of the history before the i-th, back to the last success or
\* the last attempt that locked the account (left out), and the i-th itself.
SinceLastReset(i) ==
    LET stops == {j \in 1..(i - 1) :
                     \/ history[j].outcome = "success"
                     \/ (~history[j].was_locked /\ history[j].locked)}
        from == IF stops = {} THEN 1
                ELSE (CHOOSE j \in stops : \A k \in stops : k <= j) + 1
    IN  from..i

\* C29: an attempt that takes the account from unlocked to locked is the last
\* of at least five failures since the last success or the previous lock, with
\* no other password check among them; while the lock is in force a login is
\* refused, with the right password too, and leaves the row as it was; a
\* successful login sets login_attempts to 0 and locked_until to None.
C29_Lockout ==
    \A i \in DOMAIN history :
        LET a == history[i]
        IN  /\ (~a.was_locked /\ a.locked) =>
                  LET failures == {j \in SinceLastReset(i) :
                                      history[j].outcome = "failure"}
                  IN  Cardinality(failures) >= LockThreshold
            /\ a.was_locked => (a.outcome = "refused" /\ a.after = a.before)
            /\ a.outcome = "success" =>
                  (a.after.login_attempts = 0 /\ a.after.locked_until = << >>)

----------------------------------------------------------------------------
(* The request of a password reset (SpecReset).                             *)

\* C30: a valid request of a client that is not logged in is answered with the
\* same message and the same redirect to login, and raises nothing, whether
\* the email is that of a registered user or not; for a registered user the
\* row holds a reset token and its expiry afterwards.
C30_SameOutcome ==
    \A i \in DOMAIN history :
        LET h == history[i]
        IN  (~h.request.authenticated /\ h.request.valid) =>
                /\ h.response = ResetSentResponse
                /\ exceptions = {}
                /\ h.request.registered =>
                      /\ h.users[h.request.email].reset_token # << >>
                      /\ h.users[h.request.email].token_expiration # << >>

====
